---- MODULE Spec2Model ----
(***************************************************************************)
(* Model of the automate-sc bot worker (src/src/worker.ts), its DOM        *)
(* scanner (src/src/core/snapchat.ts) and its reply generator              *)
(* (src/src/ai/client.ts).                                                 *)
(*                                                                         *)
(* JavaScript strings are sequences of one-character strings, so that      *)
(* toLowerCase, includes, trim, split and the template-string dedup key    *)
(* are computed, not assumed.                                              *)
(***************************************************************************)
EXTENDS Integers, Sequences, FiniteSets, TLC

VARIABLES
    \* ---- worker.ts module state
    pc,                 \* where main()/pollLoop()/handleConversation() is suspended
    isRunning,          \* worker.ts:61
    isPaused,           \* worker.ts:62
    repliesThisHour,    \* worker.ts:63
    lastHourReset,      \* worker.ts:64
    processedMessages,  \* worker.ts:65
    runtimeConfig,      \* worker.ts:36-58
    stats,              \* worker.ts:68-75
    client,             \* ai/client.ts:26  (TRUE when the OpenAI client exists)
    currentConfig,      \* ai/client.ts:19-24
    config,             \* config/index.ts:26-44 (the fields the worker reads)
    \* ---- locals of pollLoop / handleConversation
    pollCount,          \* worker.ts:278
    allConversations,   \* worker.ts:296
    unread,             \* worker.ts:307
    idx,                \* position of the for-of loop of worker.ts:317 in unread
    startTime,          \* worker.ts:194
    messages,           \* worker.ts:210
    messageKey,         \* worker.ts:226
    response,           \* worker.ts:245
    \* ---- environment
    now,                \* Date.now(), ms since the worker was loaded
    hour,               \* new Date().getHours()
    day,                \* new Date().getDay()
    \* ---- observation of the calls and reports the worker makes
    reported,           \* the types of the report() calls of the last step, in order
    calls,              \* calls of getResponse and sendMessage by (name, text) pair,
                        \* the pair in hand, the ignore list of the last scan, the
                        \* outcome of the last step, the control messages received
    \* ---- input and result of a pure function applied on its own
    arg,
    ret,
    \* ---- the worker process, seen from outside
    proc,               \* its browser (worker.ts:348, 355, 383), the sessions it saved
                        \* (worker.ts:359, 377), its exit code, the status it reported last
    \* ---- the dashboard server (part_012)
    sessions,           \* the session ids getSession() finds
    activeBots,         \* part_012:60
    children,           \* the worker processes spawned so far
    timers,             \* the pending forced-kill timers of part_012:302-308
    login               \* server.ts:46-48 loginBrowser and pendingLoginName, the
                        \* login browsers open, the login requests received

vars == <<pc, isRunning, isPaused, repliesThisHour, lastHourReset, processedMessages,
          runtimeConfig, stats, client, currentConfig, config, pollCount, allConversations, unread, idx,
          startTime, messages, messageKey, response, now, hour, day,
          reported, calls, arg, ret, proc, sessions, activeBots, children, timers, login>>

ctlVars == <<isRunning, isPaused>>
rateVars == <<repliesThisHour, lastHourReset>>
aiVars == <<client, currentConfig, config>>
loopVars == <<pollCount, allConversations, unread, idx>>
convVars == <<startTime, messages, messageKey, response>>
clockVars == <<now, hour, day>>
pureVars == <<arg, ret>>
workerVars == <<pc, isRunning, isPaused, repliesThisHour, lastHourReset, processedMessages,
                runtimeConfig, stats, client, currentConfig, config, pollCount,
                allConversations, unread, idx, startTime, messages, messageKey, response,
                now, hour, day, reported, calls, arg, ret, proc>>
orchVars == <<sessions, activeBots, children, timers, login>>
sysVars == <<proc, orchVars>>

(***************************************************************************)
(* Strings                                                                 *)
(***************************************************************************)

UpperCase == <<"A","B","C","D","E","F","G","H","I","J","K","L","M",
               "N","O","P","Q","R","S","T","U","V","W","X","Y","Z">>
LowerCase == <<"a","b","c","d","e","f","g","h","i","j","k","l","m",
               "n","o","p","q","r","s","t","u","v","w","x","y","z">>
Digits == {"0","1","2","3","4","5","6","7","8","9"}

NL == "\n"

IsSpace(c) == c \in {" ", NL, "\t"}

toLowerChar(c) ==
    IF \E i \in 1..Len(UpperCase) : UpperCase[i] = c
    THEN LowerCase[CHOOSE i \in 1..Len(UpperCase) : UpperCase[i] = c]
    ELSE c

\* String.prototype.toLowerCase
toLowerCase(s) == [i \in 1..Len(s) |-> toLowerChar(s[i])]

\* sub occurs in s at position i
MatchAt(s, sub, i) ==
    /\ i >= 1
    /\ i + Len(sub) - 1 <= Len(s)
    /\ \A k \in 1..Len(sub) : s[i + k - 1] = sub[k]

\* String.prototype.includes
includes(s, sub) == \E i \in 1..(Len(s) + 1) : MatchAt(s, sub, i)

\* String.prototype.trim
trim(s) ==
    IF \A i \in 1..Len(s) : IsSpace(s[i]) THEN <<>>
    ELSE LET a == CHOOSE i \in 1..Len(s) :
                     /\ ~IsSpace(s[i])
                     /\ \A j \in 1..(i - 1) : IsSpace(s[j])
             b == CHOOSE i \in 1..Len(s) :
                     /\ ~IsSpace(s[i])
                     /\ \A j \in (i + 1)..Len(s) : IsSpace(s[j])
         IN SubSeq(s, a, b)

\* String.prototype.substring(0, n)
substring0(s, n) == IF Len(s) <= n THEN s ELSE SubSeq(s, 1, n)

RECURSIVE split(_, _)
\* String.prototype.split(sep) for a one-character separator
split(s, sep) ==
    IF \A i \in 1..Len(s) : s[i] # sep THEN <<s>>
    ELSE LET p == CHOOSE i \in 1..Len(s) :
                     s[i] = sep /\ \A j \in 1..(i - 1) : s[j] # sep
         IN <<SubSeq(s, 1, p - 1)>> \o split(SubSeq(s, p + 1, Len(s)), sep)

RECURSIVE join(_, _)
\* Array.prototype.join(sep)
join(ls, sep) ==
    IF ls = <<>> THEN <<>>
    ELSE IF Len(ls) = 1 THEN ls[1]
    ELSE ls[1] \o sep \o join(Tail(ls), sep)

(***************************************************************************)
(* Words of the scanner, as JavaScript strings                             *)
(***************************************************************************)

sDelivered == <<"d","e","l","i","v","e","r","e","d">>
sSent      == <<"s","e","n","t">>
sOpened    == <<"o","p","e","n","e","d">>
sReceived  == <<"r","e","c","e","i","v","e","d">>
sNewChat   == <<"n","e","w"," ","c","h","a","t">>
sNewSnap   == <<"n","e","w"," ","s","n","a","p">>
sNewMessage == <<"n","e","w"," ","m","e","s","s","a","g","e">>
sNewChatName == <<"N","e","w"," ","C","h","a","t">>

\* /received\s*·?\s*\d+[mhs]/i.test(text): "received", optional blanks, an optional
\* middle dot, optional blanks, one or more digits, one of m, h, s; case-insensitive
ReceivedWithTime(text) ==
    LET t == toLowerCase(text)
        n == Len(t)
    IN \E i \in 1..n :
         /\ MatchAt(t, sReceived, i)
         /\ \E a \in (i + Len(sReceived))..(n + 1) :
              /\ \A k \in (i + Len(sReceived))..(a - 1) : IsSpace(t[k])
              /\ \E b \in {a, a + 1} :
                   /\ b = a + 1 => (a <= n /\ t[a] = "·")
                   /\ \E c \in b..(n + 1) :
                        /\ \A k \in b..(c - 1) : IsSpace(t[k])
                        /\ \E d \in (c + 1)..n :
                             /\ \A k \in c..(d - 1) : t[k] \in Digits
                             /\ t[d] \in {"m", "h", "s"}

(***************************************************************************)
(* core/snapchat.ts: getConversations                                      *)
(* A candidate node is [text, badge, span, weight]: its innerText, whether *)
(* it holds a notification/badge/dot/unread element, whether it holds a    *)
(* span or p, and that element's computed font weight.                     *)
(***************************************************************************)

MaxItemText == 200
MaxPreview == 100
BoldWeight == 600

NonBlank(l) == trim(l) # <<>>

\* snapchat.ts:65-70: the trimmed text, its non-blank lines, name and preview
ItemText(item) == trim(item.text)
ItemLines(item) == SelectSeq(split(ItemText(item), NL), NonBlank)
ItemName(item) == IF ItemLines(item) = <<>> THEN <<>> ELSE trim(ItemLines(item)[1])
ItemPreview(item) ==
    IF ItemLines(item) = <<>> THEN <<>>
    ELSE substring0(trim(join([i \in 1..(Len(ItemLines(item)) - 1) |->
                                   ItemLines(item)[i + 1]], <<" ">>)), MaxPreview)

\* snapchat.ts:66 and 72: the item is skipped
ItemRejected(item, seen) ==
    \/ ItemText(item) = <<>>
    \/ Len(ItemText(item)) < 2
    \/ Len(ItemText(item)) > MaxItemText
    \/ ItemName(item) = <<>>
    \/ Len(ItemName(item)) < 2
    \/ ItemName(item) \in seen

\* the classification with the notification badge looked at before the
\* sent-confirmation rule
ClassifyItemBadgeFirst(item) ==
    LET textLower == toLowerCase(ItemText(item))
        confirmed == \/ includes(textLower, sDelivered)
                     \/ includes(textLower, sSent) /\ ~includes(textLower, sReceived)
                     \/ includes(textLower, sOpened)
    IN [name |-> ItemName(item), preview |-> ItemPreview(item),
        hasUnread |-> item.badge \/ (~confirmed /\ includes(textLower, sReceived)),
        isNewChat |-> FALSE, isNewSnap |-> FALSE]

\* snapchat.ts:75-146: the conversation pushed for one accepted item
ClassifyItem(item) ==
    LET text == ItemText(item)
        name == ItemName(item)
        textLower == toLowerCase(text)
        hasDelivered == includes(textLower, sDelivered)
        hasSent == includes(textLower, sSent) /\ ~includes(textLower, sReceived)
        hasOpened == includes(textLower, sOpened)
        hasReceived == includes(textLower, sReceived)
        hasNewChat == name = sNewChatName \/ includes(textLower, sNewChat)
        hasNewSnap == includes(textLower, sNewSnap) \/ includes(textLower, sNewMessage)
        marked == \/ ReceivedWithTime(text)
                  \/ hasReceived
                  \/ hasNewChat
                  \/ hasNewSnap
                  \/ item.badge
        bold == /\ ~marked /\ ~hasDelivered /\ ~hasSent /\ ~hasOpened /\ ~hasReceived
                /\ item.span
                /\ item.weight >= BoldWeight
        hasUnread == marked \/ bold
    IN IF hasDelivered \/ hasSent \/ hasOpened
       THEN [name |-> name, preview |-> ItemPreview(item), hasUnread |-> FALSE,
             isNewChat |-> FALSE, isNewSnap |-> FALSE]
       ELSE [name |-> name, preview |-> ItemPreview(item),
             hasUnread |-> hasUnread \/ hasNewChat \/ hasNewSnap,
             isNewChat |-> hasNewChat, isNewSnap |-> hasNewSnap]

RECURSIVE ScanFrom(_, _, _)
\* snapchat.ts:64-147: the loop over the candidate nodes from position i on
ScanFrom(containers, i, seen) ==
    IF i > Len(containers) THEN <<>>
    ELSE IF ItemRejected(containers[i], seen)
         THEN ScanFrom(containers, i + 1, seen)
         ELSE <<ClassifyItem(containers[i])>>
              \o ScanFrom(containers, i + 1, seen \cup {ItemName(containers[i])})

\* snapchat.ts:55-151
getConversations(containers) == ScanFrom(containers, 1, {})

(***************************************************************************)
(* The page the worker drives: conversation names, list items, chat views  *)
(***************************************************************************)

nAl   == <<"A","l">>
nAlx  == <<"A","l",":","x">>
nBo   == <<"B","o">>
nTeam == <<"T","E","A","M"," ","S","N","A","P","C","H","A","T">>

tHi   == <<"h","i">>
tYo   == <<"y","o">>

lReceived5m == <<"R","e","c","e","i","v","e","d"," ","·"," ","5","m">>
lDelivered  == <<"D","e","l","i","v","e","r","e","d">>
lNewChat    == <<"N","e","w"," ","C","h","a","t">>
lHey        == <<"h","e","y">>

\* a list item showing a name and one status line
Row(name, status) ==
    [text |-> name \o <<NL>> \o status, badge |-> FALSE, span |-> TRUE, weight |-> 400]

\* the conversation lists the page can show at a scan
Pages ==
    { <<>>,
      <<Row(nTeam, lReceived5m), Row(nAl, lReceived5m \o <<NL>> \o lHey)>>,
      <<Row(nBo, lNewChat), Row(nTeam, lDelivered)>>,
      <<Row(nAl, lReceived5m), Row(nAlx, lReceived5m), Row(nBo, lReceived5m)>> }

\* what getConversations returns at a scan
ScanResults == {getConversations(page) : page \in Pages}

ShortScanResults == {getConversations(page) : page \in {q \in Pages : Len(q) < 3}}

Msg(text, isSent) == [text |-> text, isSent |-> isSent]

\* the message lists getMessages can return for an open conversation
ChatViews ==
    { <<>>,
      <<Msg(tYo, TRUE)>>,
      <<Msg(tHi, FALSE), Msg(tYo, TRUE)>> }

PairNames == {nAl, nAlx, nBo, nTeam}
PairTexts == {tHi}
Pairs == PairNames \X PairTexts

\* the reply the completion service returns when it returns one
rReply == <<"o","k">>
NoResponse == <<>>

(***************************************************************************)
(* worker.ts: configuration                                                *)
(***************************************************************************)

sMyAI == <<"M","y"," ","A","I">>
sTeamSnapchat == <<"T","e","a","m"," ","S","n","a","p","c","h","a","t">>

HourMs == 3600000
MaxResponseTimes == 100

\* worker.ts:36-58
DefaultRuntimeConfig ==
    [aiApiKey |-> "", aiModel |-> "deepseek-chat", aiTemperature |-> 8 (* tenths *), personality |-> "",
     responseDelayMin |-> 1500, responseDelayMax |-> 4000,
     pollIntervalMin |-> 2000, pollIntervalMax |-> 5000,
     maxRepliesPerHour |-> 30,
     scheduleEnabled |-> FALSE, scheduleStart |-> 9, scheduleEnd |-> 23,
     skipWeekends |-> FALSE,
     ignoreList |-> <<sMyAI, sTeamSnapchat>>]

\* config objects the parent sends on the control channel
ConfigMessages ==
    { [maxRepliesPerHour |-> 0],
      [ignoreList |-> << <<"A","L">> >>] }

\* config objects that set the hourly cap
RateMessages ==
    { [maxRepliesPerHour |-> 0],
      [maxRepliesPerHour |-> 1] }

\* config objects that switch the active hours on
ScheduleMessages ==
    { [scheduleEnabled |-> TRUE],
      [scheduleEnabled |-> TRUE, scheduleEnd |-> 24] }

\* the gate without the overnight window
isWithinScheduleNoWrap(cfg, h, d) ==
    IF ~cfg.scheduleEnabled THEN TRUE
    ELSE IF cfg.skipWeekends /\ (d = 0 \/ d = 6) THEN FALSE
    ELSE h >= cfg.scheduleStart /\ h < cfg.scheduleEnd

\* worker.ts:104-120, on the given config, hour and weekday
isWithinSchedule(cfg, h, d) ==
    IF ~cfg.scheduleEnabled THEN TRUE
    ELSE IF cfg.skipWeekends /\ (d = 0 \/ d = 6) THEN FALSE
    ELSE IF cfg.scheduleStart <= cfg.scheduleEnd
         THEN h >= cfg.scheduleStart /\ h < cfg.scheduleEnd
         ELSE h >= cfg.scheduleStart \/ h < cfg.scheduleEnd

\* worker.ts:125: the hourly window has run out
ResetDue(t, last) == t - last > HourMs

\* the gate that starts a new window but keeps the old count
canReplyNoReset(t, last, replies, max) ==
    [repliesThisHour |-> replies,
     lastHourReset |-> IF ResetDue(t, last) THEN t ELSE last,
     ok |-> replies < max]

\* the gate that lets every reply through
canReplyAlways(t, last, replies, max) ==
    [repliesThisHour |-> IF ResetDue(t, last) THEN 0 ELSE replies,
     lastHourReset |-> IF ResetDue(t, last) THEN t ELSE last,
     ok |-> TRUE]

\* worker.ts:123-130: the counter and window start after the check, and its result
canReply(t, last, replies, max) ==
    LET r == IF ResetDue(t, last) THEN 0 ELSE replies
    IN [repliesThisHour |-> r,
        lastHourReset |-> IF ResetDue(t, last) THEN t ELSE last,
        ok |-> r < max]

\* the match without lowering the case of the name
IsIgnoredCaseSensitive(name, ignoreList) ==
    \E k \in 1..Len(ignoreList) : includes(name, toLowerCase(ignoreList[k]))

\* worker.ts:300-304: the name matches an entry of the ignore list
IsIgnored(name, ignoreList) ==
    \E k \in 1..Len(ignoreList) : includes(toLowerCase(name), toLowerCase(ignoreList[k]))

NotIgnored(c) == ~IsIgnored(c.name, runtimeConfig.ignoreList)
HasUnread(c) == c.hasUnread

\* worker.ts:299-307: the conversations to handle, in scan order
UnreadOf(convs) == SelectSeq(SelectSeq(convs, NotIgnored), HasUnread)

\* worker.ts:218-219: the last message of the counterpart, <<>> when there is none
LastReceived(msgs) ==
    LET received == SelectSeq(msgs, LAMBDA m : ~m.isSent)
    IN IF received = <<>> THEN <<>> ELSE <<received[Len(received)]>>

\* worker.ts:226
MessageKey(name, text) == name \o <<":">> \o text

(***************************************************************************)
(* Bounds of the exploration                                               *)
(***************************************************************************)

MaxPolls == 2        \* iterations of the poll loop, and calls of handleConversation
MaxCtl == 1          \* control-channel messages
MaxTicks == 1        \* clock advances of one hour, and of one second

\* the stored sessions, and the entry of activeBots for a session without a bot
SessionIds == {"s1"}
NoBot == [process |-> 0, status |-> "none"]

MaxSpawns == 3       \* worker processes the dashboard spawns

(***************************************************************************)
(* Observation                                                             *)
(***************************************************************************)

NoPair == <<>>

\* the outcome of the step the poll loop took last
Last(c, what) == [c EXCEPT !.last = what]

\* one more call for pair p (counted up to three)
CountPair(c, p, f) == [c EXCEPT !.byPair[p][f] = IF @ < 3 THEN @ + 1 ELSE @]

\* one more reply sent, at time t, in the rate window that began at w
Sent(c, t, w) == [c EXCEPT !.sentAt = Append(@, [t |-> t, window |-> w])]

\* the first presentation of pair p ends the way `how` says
EndFirst(c, p, how) ==
    IF p # NoPair /\ c.byPair[p].first = "open"
    THEN [c EXCEPT !.byPair[p].first = how] ELSE c

(***************************************************************************)
(* Initial state: worker.ts loaded, main() not yet run                     *)
(***************************************************************************)

\* the module-level state of worker.ts and ai/client.ts after loading
Constructed ==
    /\ isRunning = TRUE
    /\ isPaused = FALSE
    /\ repliesThisHour = 0
    /\ lastHourReset = 0
    /\ processedMessages = {}
    /\ runtimeConfig = DefaultRuntimeConfig
    /\ stats = [messagesReceived |-> 0, messagesSent |-> 0, conversationsHandled |-> 0,
                responseTimes |-> <<>>]
    /\ client = FALSE
    /\ config \in {[deepseekApiKey |-> k, autoReply |-> TRUE] : k \in {"", "env"}}
    /\ currentConfig = [apiKey |-> config.deepseekApiKey, model |-> "deepseek-chat",
                        temperature |-> 8, personality |-> "SYSTEM_PROMPT"]
    /\ pollCount = 0
    /\ allConversations = <<>>
    /\ unread = <<>>
    /\ idx = 0
    /\ startTime = 0
    /\ messages = <<>>
    /\ messageKey = <<>>
    /\ response = NoResponse
    /\ now = 0
    /\ hour = 23
    /\ day = 5
    /\ reported = <<>>
    /\ calls = [byPair |-> [p \in Pairs |-> [presented |-> 0, gen |-> 0, send |-> 0,
                                             first |-> "none"]],
                pair |-> NoPair,
                scanIgnore |-> <<>>,
                last |-> "none",
                ctl |-> 0,
                sentAt |-> <<>>]
    /\ proc = [browser |-> "none", saved |-> 0, exit |-> -1, status |-> "none"]

\* server.ts:47-48: null
NoBrowser == 0
NoName == ""

\* part_012:60-62: the server has started no bot; one session is stored
Idle ==
    /\ sessions = SessionIds
    /\ activeBots = [s \in SessionIds |-> NoBot]
    /\ children = <<>>
    /\ timers = {}
    /\ login = [browser |-> NoBrowser, name |-> NoName, open |-> {}, made |-> 0,
                saved |-> {}, reqs |-> <<>>]

Init ==
    /\ pc = "main"
    /\ Constructed
    /\ Idle
    /\ arg = <<>>
    /\ ret = <<>>

(***************************************************************************)
(* Control channel: process.on('message'), worker.ts:133-187               *)
(***************************************************************************)

Alive == pc # "exited"
CtlWithin(n) == calls.ctl < n
CtlLeft == CtlWithin(MaxCtl)

\* worker.ts:134-136
PauseOn(left) ==
    /\ Alive /\ left
    /\ isPaused' = TRUE
    /\ reported' = <<"status">>
    /\ calls' = [calls EXCEPT !.ctl = @ + 1]
    /\ proc' = [proc EXCEPT !.status = "paused"]
    /\ UNCHANGED <<pc, isRunning, rateVars, processedMessages, runtimeConfig, stats,
                   aiVars, loopVars, convVars, clockVars, pureVars, orchVars>>

\* worker.ts:137-139
ResumeOn(left) ==
    /\ Alive /\ left
    /\ isPaused' = FALSE
    /\ reported' = <<"status">>
    /\ calls' = [calls EXCEPT !.ctl = @ + 1]
    /\ proc' = [proc EXCEPT !.status = "running"]
    /\ UNCHANGED <<pc, isRunning, rateVars, processedMessages, runtimeConfig, stats,
                   aiVars, loopVars, convVars, clockVars, pureVars, orchVars>>

\* worker.ts:140-142
StopOn(left) ==
    /\ Alive /\ left
    /\ isRunning' = FALSE
    /\ reported' = <<"status">>
    /\ calls' = [calls EXCEPT !.ctl = @ + 1]
    /\ proc' = [proc EXCEPT !.status = "stopping"]
    /\ UNCHANGED <<pc, isPaused, rateVars, processedMessages, runtimeConfig, stats,
                   aiVars, loopVars, convVars, clockVars, pureVars, orchVars>>

\* a control message of each type, while messages are left
Pause == PauseOn(CtlLeft)
Resume == ResumeOn(CtlLeft)
Stop == StopOn(CtlLeft)

\* a control message of each type at any time, one more than in Pause, Resume, Stop
PauseMsg == PauseOn(CtlWithin(MaxCtl + 1))
ResumeMsg == ResumeOn(CtlWithin(MaxCtl + 1))
StopMsg == StopOn(CtlWithin(MaxCtl + 1))

\* the requests of the dashboard: pause is accepted for a bot whose status is
\* 'running' (part_012:313-325), resume for one whose status is 'paused'
\* (part_012:327-339), stop for every bot (part_012:290-300); the status the
\* server holds is the one the worker reported last (part_012:80-82).  A
\* message is handled once main() has run to its first await, so after the
\* report of 'starting' (worker.ts:340-348)
PauseAsked == proc.status = "running" /\ PauseMsg
ResumeAsked == proc.status = "paused" /\ ResumeMsg
StopAsked == proc.status # "none" /\ StopMsg

\* worker.ts:148-182: the fields the handler copies from the message
ConfigFields == {"aiApiKey", "aiModel", "aiTemperature", "personality",
                 "responseDelayMin", "responseDelayMax", "maxRepliesPerHour",
                 "scheduleEnabled", "scheduleStart", "scheduleEnd", "skipWeekends",
                 "ignoreList"}

\* worker.ts:143-182: the runtime config after a config message
ApplyConfig(old, cfg) ==
    [f \in DOMAIN old |->
        IF f \in ConfigFields /\ f \in DOMAIN cfg THEN cfg[f] ELSE old[f]]

\* worker.ts:147-163: the updates handed to updateAIConfig
AiUpdates(cfg) ==
    [f \in {"apiKey", "model", "temperature", "personality"} \cap
           { IF g = "aiApiKey" THEN "apiKey"
             ELSE IF g = "aiModel" THEN "model"
             ELSE IF g = "aiTemperature" THEN "temperature" ELSE g : g \in DOMAIN cfg } |->
        IF f = "apiKey" THEN cfg.aiApiKey
        ELSE IF f = "model" THEN cfg.aiModel
        ELSE IF f = "temperature" THEN cfg.aiTemperature ELSE cfg.personality]

\* ai/client.ts:62-78: updateAIConfig; the string "" is falsy
UpdatedAIConfig(cur, updates) ==
    [apiKey |-> IF "apiKey" \in DOMAIN updates /\ updates.apiKey # ""
                   /\ updates.apiKey # cur.apiKey
                THEN updates.apiKey ELSE cur.apiKey,
     model |-> IF "model" \in DOMAIN updates /\ updates.model # ""
               THEN updates.model ELSE cur.model,
     temperature |-> IF "temperature" \in DOMAIN updates
                     THEN updates.temperature ELSE cur.temperature,
     personality |-> IF "personality" \in DOMAIN updates /\ updates.personality # ""
                     THEN updates.personality ELSE cur.personality]

\* ai/client.ts:64-71: a new API key builds the client
UpdatedClient(cur, updates, cl) ==
    IF "apiKey" \in DOMAIN updates /\ updates.apiKey # "" /\ updates.apiKey # cur.apiKey
    THEN TRUE ELSE cl

\* worker.ts:143-186, for a config object of the set msgs
ConfigFrom(msgs) ==
    /\ Alive /\ CtlLeft
    /\ \E cfg \in msgs :
         /\ runtimeConfig' = ApplyConfig(runtimeConfig, cfg)
         /\ IF DOMAIN AiUpdates(cfg) # {}
            THEN /\ currentConfig' = UpdatedAIConfig(currentConfig, AiUpdates(cfg))
                 /\ client' = UpdatedClient(currentConfig, AiUpdates(cfg), client)
                 /\ UNCHANGED config
            ELSE UNCHANGED aiVars
    /\ reported' = <<"config_updated">>
    /\ calls' = [calls EXCEPT !.ctl = @ + 1]
    /\ UNCHANGED <<pc, ctlVars, rateVars, processedMessages, stats, loopVars, convVars,
                   clockVars, pureVars, sysVars>>

Config == ConfigFrom(ConfigMessages)

ConfigRate == ConfigFrom(RateMessages)

ConfigSchedule == ConfigFrom(ScheduleMessages)

(***************************************************************************)
(* Wall clock                                                              *)
(***************************************************************************)

\* the sleeps of the poll loop (worker.ts:284, 291, 336), and every timed sleep
LoopSleeping == pc \in {"pausedSleep", "schedSleep", "pollSleep"}
Sleeping == LoopSleeping \/ pc = "hc_delay"

\* one second passes during a sleep
TickSecond ==
    /\ Sleeping
    /\ now % HourMs < MaxTicks * 1000
    /\ now' = now + 1000
    /\ UNCHANGED <<pc, ctlVars, rateVars, processedMessages, runtimeConfig, stats, aiVars,
                   loopVars, convVars, hour, day, reported, calls, pureVars, sysVars>>

\* one hour passes while the worker is suspended at one of pcs
TickHourAt(pcs) ==
    /\ pc \in pcs
    /\ now \div HourMs < MaxTicks
    /\ now' = now + HourMs
    /\ hour' = (hour + 1) % 24
    /\ day' = IF hour = 23 THEN (day + 1) % 7 ELSE day
    /\ UNCHANGED <<pc, ctlVars, rateVars, processedMessages, runtimeConfig, stats, aiVars,
                   loopVars, convVars, reported, calls, pureVars, sysVars>>

\* one hour passes between two iterations of the loop
TickHour == TickHourAt({"pausedSleep", "schedSleep", "pollSleep"})

\* one hour passes during the response delay (worker.ts:240-242) or while the
\* completion is awaited (worker.ts:245)
TickHourReplying == TickHourAt({"hc_delay", "hc_gen"})

(***************************************************************************)
(* worker.ts: main(), before the poll loop                                 *)
(***************************************************************************)

\* ai/client.ts:28-51: initAI() without a session config
InitAI ==
    IF config.deepseekApiKey = "" THEN UNCHANGED aiVars
    ELSE /\ currentConfig' = [apiKey |-> config.deepseekApiKey, model |-> "deepseek-chat",
                              temperature |-> 8, personality |-> "SYSTEM_PROMPT"]
         /\ client' = TRUE
         /\ UNCHANGED config

\* worker.ts:340-348: report 'starting', initAI, launch the browser
Boot ==
    /\ pc = "main"
    /\ pc' = "navigate"
    /\ reported' = <<"status">>
    /\ InitAI
    /\ proc' = [proc EXCEPT !.status = "starting", !.browser = "open"]
    /\ UNCHANGED <<ctlVars, rateVars, processedMessages, runtimeConfig, stats, loopVars,
                   convVars, clockVars, calls, pureVars, orchVars>>

\* worker.ts:350-363: navigateToSnapchat succeeds; report 'running'
Navigate ==
    /\ pc = "navigate"
    /\ pc' = "loopTop"
    /\ reported' = <<"status">>
    /\ proc' = [proc EXCEPT !.status = "running", !.saved = @ + 1]
    /\ UNCHANGED <<ctlVars, rateVars, processedMessages, runtimeConfig, stats, aiVars,
                   loopVars, convVars, clockVars, calls, pureVars, orchVars>>

\* a failed navigation that is reported and then ignored
NavigateFailsGoesOn ==
    /\ pc = "navigate"
    /\ pc' = "loopTop"
    /\ reported' = <<"error">>
    /\ proc' = [proc EXCEPT !.status = "running"]
    /\ UNCHANGED <<ctlVars, rateVars, processedMessages, runtimeConfig, stats, aiVars,
                   loopVars, convVars, clockVars, calls, pureVars, orchVars>>

\* worker.ts:351-357: navigateToSnapchat fails; report 'error' and exit(1)
NavigateFails ==
    /\ pc = "navigate"
    /\ pc' = "exited"
    /\ reported' = <<"error">>
    /\ proc' = [proc EXCEPT !.browser = "closed", !.exit = 1]
    /\ UNCHANGED <<ctlVars, rateVars, processedMessages, runtimeConfig, stats, aiVars,
                   loopVars, convVars, clockVars, calls, pureVars, orchVars>>

(***************************************************************************)
(* worker.ts: pollLoop()                                                   *)
(***************************************************************************)

MaxHandled == MaxPolls

\* a for-of loop that looks at isRunning only
ForNextIgnoresPause(list, i) ==
    IF i > Len(list) \/ ~isRunning
    THEN [pc |-> IF Len(list) >= 3 THEN "scroll" ELSE "pollSleep", idx |-> 0,
          starts |-> FALSE]
    ELSE [pc |-> "hc_open", idx |-> i, starts |-> TRUE]

\* worker.ts:317-330: the for-of loop reaches position i of list: it starts
\* handleConversation for list[i], or leaves the loop
ForNext(list, i) ==
    IF i > Len(list) \/ ~isRunning \/ isPaused
    THEN [pc |-> IF Len(list) >= 3 THEN "scroll" ELSE "pollSleep", idx |-> 0,
          starts |-> FALSE]
    ELSE [pc |-> "hc_open", idx |-> i, starts |-> TRUE]

\* worker.ts:194-202: the head of handleConversation, up to the await of
\* openConversation; c and r are the observations and reports of this step so far
StartHandle(c, r) ==
    /\ stats.messagesReceived < MaxHandled
    /\ stats' = [stats EXCEPT !.messagesReceived = @ + 1]
    /\ reported' = r \o <<"message_received">>
    /\ startTime' = now
    /\ calls' = c

\* no call of handleConversation is active: its locals are gone
NoConv ==
    /\ messages' = <<>>
    /\ messageKey' = <<>>
    /\ response' = NoResponse

\* worker.ts:317-336: control moves to position i of list
Goto(list, i, c, r) ==
    /\ pc' = ForNext(list, i).pc
    /\ idx' = ForNext(list, i).idx
    /\ NoConv
    /\ IF ForNext(list, i).starts
       THEN StartHandle([c EXCEPT !.pair = NoPair], r)
       ELSE /\ calls' = [c EXCEPT !.pair = NoPair]
            /\ reported' = r
            /\ startTime' = 0
            /\ UNCHANGED stats

\* worker.ts:319-322: handleConversation has returned
Return(c) ==
    IF Len(unread) > 1
    THEN /\ pc' = "interSleep"
         /\ calls' = [c EXCEPT !.pair = NoPair]
         /\ reported' = <<>>
         /\ startTime' = 0
         /\ NoConv
         /\ UNCHANGED <<idx, stats>>
    ELSE Goto(unread, idx + 1, c, <<>>)

\* a catch that reports the error and ends the worker
PollCatchExits(c) ==
    /\ pc' = "exited"
    /\ reported' = <<"error">>
    /\ calls' = Last([c EXCEPT !.pair = NoPair], "thrown")
    /\ idx' = 0
    /\ startTime' = 0
    /\ NoConv
    /\ UNCHANGED stats

\* worker.ts:331-334: the catch of the poll iteration
PollCatch(c) ==
    /\ pc' = "pollSleep"
    /\ reported' = <<"error">>
    /\ calls' = Last([c EXCEPT !.pair = NoPair], "thrown")
    /\ idx' = 0
    /\ startTime' = 0
    /\ NoConv
    /\ UNCHANGED stats

\* worker.ts:280-293: the head of an iteration
\* a loop that tests isPaused and the schedule but not isRunning
LoopTopIgnoresStop ==
    /\ pc = "loopTop"
    /\ pollCount < MaxPolls
    /\ pollCount' = pollCount + 1
    /\ pc' = IF isPaused THEN "pausedSleep"
             ELSE IF ~isWithinSchedule(runtimeConfig, hour, day) THEN "schedSleep"
             ELSE "scan"
    /\ reported' = <<>>
    /\ calls' = Last(calls, "none")
    /\ UNCHANGED <<ctlVars, rateVars, processedMessages, runtimeConfig, stats, aiVars,
                   allConversations, unread, idx, convVars, clockVars, pureVars, sysVars>>

LoopTop ==
    /\ pc = "loopTop"
    /\ IF ~isRunning
       THEN pc' = "shutdown" /\ UNCHANGED pollCount
       ELSE /\ pollCount < MaxPolls
            /\ pollCount' = pollCount + 1
            /\ pc' = IF isPaused THEN "pausedSleep"
                     ELSE IF ~isWithinSchedule(runtimeConfig, hour, day) THEN "schedSleep"
                     ELSE "scan"
    /\ reported' = <<>>
    /\ calls' = Last(calls, "none")
    /\ UNCHANGED <<ctlVars, rateVars, processedMessages, runtimeConfig, stats, aiVars,
                   allConversations, unread, idx, convVars, clockVars, pureVars, sysVars>>

\* worker.ts:284, 291, 336: a sleep of the loop ends
SleepDone ==
    /\ pc \in {"pausedSleep", "schedSleep", "pollSleep"}
    /\ pc' = "loopTop"
    /\ allConversations' = <<>>
    /\ unread' = <<>>
    /\ reported' = <<>>
    /\ UNCHANGED <<ctlVars, rateVars, processedMessages, runtimeConfig, stats, aiVars,
                   pollCount, idx, convVars, clockVars, calls, pureVars, sysVars>>

\* worker.ts:309-315
Heartbeat == IF pollCount % 10 = 0 THEN <<"heartbeat">> ELSE <<>>

\* worker.ts:296-319: getConversations returns one of results; filter, heartbeat,
\* first conversation
ScanOf(results) ==
    /\ pc = "scan"
    /\ \E all \in results :
         /\ allConversations' = all
         /\ unread' = UnreadOf(all)
         /\ Goto(UnreadOf(all), 1,
                 [calls EXCEPT !.scanIgnore = runtimeConfig.ignoreList, !.last = "scanned"],
                 Heartbeat)
    /\ UNCHANGED <<ctlVars, rateVars, processedMessages, runtimeConfig, aiVars, pollCount,
                   clockVars, pureVars, sysVars>>

Scan == ScanOf(ScanResults)

\* a scan of a list that shows at most two conversations
ScanShort == ScanOf(ShortScanResults)

\* worker.ts:296: getConversations throws (page.evaluate fails)
ScanThrows ==
    /\ pc = "scan"
    /\ PollCatch(calls)
    /\ UNCHANGED <<ctlVars, rateVars, processedMessages, runtimeConfig, aiVars, pollCount,
                   allConversations, unread, clockVars,
                   pureVars, sysVars>>

\* worker.ts:321: the sleep between two conversations ends
\* a loop that passes over the conversation that is next
InterSleepDoneSkipsOne ==
    /\ pc = "interSleep"
    /\ Goto(unread, idx + 2, calls, <<>>)
    /\ UNCHANGED <<ctlVars, rateVars, processedMessages, runtimeConfig, aiVars, pollCount,
                   allConversations, unread, clockVars,
                   pureVars, sysVars>>

InterSleepDone ==
    /\ pc = "interSleep"
    /\ Goto(unread, idx + 1, calls, <<>>)
    /\ UNCHANGED <<ctlVars, rateVars, processedMessages, runtimeConfig, aiVars, pollCount,
                   allConversations, unread, clockVars,
                   pureVars, sysVars>>

\* worker.ts:327-330: scrollConversationList returns
Scroll ==
    /\ pc = "scroll"
    /\ pc' = "pollSleep"
    /\ reported' = <<>>
    /\ UNCHANGED <<ctlVars, rateVars, processedMessages, runtimeConfig, stats, aiVars,
                   loopVars, convVars, clockVars, calls, pureVars, sysVars>>

\* worker.ts:329: scrollConversationList throws
ScrollThrows ==
    /\ pc = "scroll"
    /\ PollCatch(calls)
    /\ UNCHANGED <<ctlVars, rateVars, processedMessages, runtimeConfig, aiVars, pollCount,
                   allConversations, unread, clockVars,
                   pureVars, sysVars>>

\* worker.ts:367-387: shutdown() after the loop
Shutdown ==
    /\ pc = "shutdown"
    /\ pc' = "exited"
    /\ isRunning' = FALSE
    /\ reported' = <<"status">>
    /\ proc' = [proc EXCEPT !.status = "stopped", !.saved = @ + 1, !.browser = "closed",
                            !.exit = 0]
    /\ UNCHANGED <<isPaused, rateVars, processedMessages, runtimeConfig, stats, aiVars,
                   loopVars, convVars, clockVars, calls, pureVars, orchVars>>

\* worker.ts:390-391: SIGTERM.  Once main() has registered shutdown() as the
\* handler (after navigation), the signal runs shutdown() at once, whatever
\* the poll loop is awaiting: it closes the browser and exits with code 0.
\* Before that the signal ends the process (code 128 + 15) where it stands.
Sigterm ==
    /\ Alive
    /\ pc' = "exited"
    /\ IF pc \in {"main", "navigate"}
       THEN /\ proc' = [proc EXCEPT !.exit = 143]
            /\ reported' = <<>>
            /\ UNCHANGED isRunning
       ELSE /\ proc' = [proc EXCEPT !.status = "stopped", !.saved = @ + 1,
                                    !.browser = "closed", !.exit = 0]
            /\ reported' = <<"status">>
            /\ isRunning' = FALSE
    /\ calls' = Last(calls, "killed")
    /\ UNCHANGED <<isPaused, rateVars, processedMessages, runtimeConfig, stats, aiVars,
                   loopVars, convVars, clockVars, pureVars, orchVars>>

\* part_012:302-308: the timer set by the stop request fires and kills the
\* worker that has not exited; the stop message was sent before the timer was
\* set, and the worker has handled it
ForcedKill == ~isRunning /\ Sigterm

(***************************************************************************)
(* worker.ts: handleConversation()                                         *)
(***************************************************************************)

\* the conversation being handled
Conv == unread[idx]

\* ai/client.ts:53-55
isAIReady == client

\* worker.ts:202-208: openConversation returns true
Open ==
    /\ pc = "hc_open"
    /\ pc' = "hc_getMessages"
    /\ reported' = <<>>
    /\ calls' = Last(calls, "opened")
    /\ UNCHANGED <<ctlVars, rateVars, processedMessages, runtimeConfig, stats, aiVars,
                   loopVars, convVars, clockVars, pureVars, sysVars>>

\* a failed open without the early return
OpenFailsFallsThrough ==
    /\ pc = "hc_open"
    /\ pc' = "hc_getMessages"
    /\ reported' = <<>>
    /\ calls' = Last(calls, "openFalse")
    /\ UNCHANGED <<ctlVars, rateVars, processedMessages, runtimeConfig, stats, aiVars,
                   loopVars, convVars, clockVars, pureVars, sysVars>>

\* worker.ts:202-206: openConversation returns false
OpenFails ==
    /\ pc = "hc_open"
    /\ Return(Last(calls, "openFalse"))
    /\ UNCHANGED <<ctlVars, rateVars, processedMessages, runtimeConfig, aiVars, pollCount,
                   allConversations, unread, clockVars,
                   pureVars, sysVars>>

\* the steps after the key without the look-up in processedMessages
GateNoDedup(key, c) ==
    LET g == canReply(now, lastHourReset, repliesThisHour, runtimeConfig.maxRepliesPerHour)
    IN /\ repliesThisHour' = g.repliesThisHour
       /\ lastHourReset' = g.lastHourReset
       /\ IF ~g.ok
          THEN /\ processedMessages' = processedMessages \cup {key}
               /\ pc' = "hc_exit"
               /\ calls' = Last(EndFirst(c, c.pair, "final"), "gateRefused")
          ELSE IF config.autoReply /\ isAIReady
          THEN /\ pc' = "hc_delay"
               /\ calls' = Last(c, "gatePassed")
               /\ UNCHANGED processedMessages
          ELSE /\ processedMessages' = processedMessages \cup {key}
               /\ pc' = "hc_exit"
               /\ calls' = Last(EndFirst(c, c.pair, "final"), "gatePassed")

\* worker.ts:226-271: what follows the computation of the key
Gate(key, c) ==
    LET g == canReply(now, lastHourReset, repliesThisHour, runtimeConfig.maxRepliesPerHour)
    IN IF key \in processedMessages
       THEN /\ pc' = "hc_exit"
            /\ calls' = Last(EndFirst(c, c.pair, "final"), "duplicate")
            /\ UNCHANGED <<rateVars, processedMessages>>
       ELSE /\ repliesThisHour' = g.repliesThisHour
            /\ lastHourReset' = g.lastHourReset
            /\ IF ~g.ok
               THEN /\ processedMessages' = processedMessages \cup {key}
                    /\ pc' = "hc_exit"
                    /\ calls' = Last(EndFirst(c, c.pair, "final"), "gateRefused")
               ELSE IF config.autoReply /\ isAIReady
               THEN /\ pc' = "hc_delay"
                    /\ calls' = Last(c, "gatePassed")
                    /\ UNCHANGED processedMessages
               ELSE /\ processedMessages' = processedMessages \cup {key}
                    /\ pc' = "hc_exit"
                    /\ calls' = Last(EndFirst(c, c.pair, "final"), "gatePassed")

\* (name, text) is presented to handleConversation
Present(c, name, text) ==
    LET p == <<name, text>>
        c1 == [c EXCEPT !.pair = p]
        c2 == CountPair(c1, p, "presented")
    IN IF c.byPair[p].first = "none"
       THEN [c2 EXCEPT !.byPair[p].first = "open"] ELSE c2

\* worker.ts:210-243: getMessages returns
GetMessagesOf(views) ==
    /\ pc = "hc_getMessages"
    /\ \E view \in views :
         /\ messages' = view
         /\ IF view = <<>> \/ LastReceived(view) = <<>>
            THEN /\ pc' = "hc_exit"
                 /\ calls' = Last(calls, "nothingReceived")
                 /\ UNCHANGED <<rateVars, processedMessages, messageKey>>
            ELSE /\ messageKey' = MessageKey(Conv.name, LastReceived(view)[1].text)
                 /\ Gate(MessageKey(Conv.name, LastReceived(view)[1].text),
                         Present(calls, Conv.name, LastReceived(view)[1].text))
    /\ reported' = <<>>
    /\ UNCHANGED <<ctlVars, runtimeConfig, stats, aiVars, loopVars, startTime, response,
                   clockVars, pureVars, sysVars>>

GetMessages == GetMessagesOf(ChatViews)

\* worker.ts:210: getMessages throws (page.evaluate fails)
GetMessagesThrows ==
    /\ pc = "hc_getMessages"
    /\ PollCatch(calls)
    /\ UNCHANGED <<ctlVars, rateVars, processedMessages, runtimeConfig, aiVars, pollCount,
                   allConversations, unread, clockVars,
                   pureVars, sysVars>>

\* worker.ts:243-245: the response delay ends and getResponse is called
DelayDone ==
    /\ pc = "hc_delay"
    /\ pc' = "hc_gen"
    /\ reported' = <<>>
    /\ calls' = Last(CountPair(calls, calls.pair, "gen"), "getResponse")
    /\ UNCHANGED <<ctlVars, rateVars, processedMessages, runtimeConfig, stats, aiVars,
                   loopVars, convVars, clockVars, pureVars, sysVars>>

\* worker.ts:245-248: getResponse returns a text and sendMessage is called
GenReturn ==
    /\ pc = "hc_gen"
    /\ response' = rReply
    /\ pc' = "hc_send"
    /\ reported' = <<>>
    /\ calls' = Last(CountPair(calls, calls.pair, "send"), "sendMessage")
    /\ UNCHANGED <<ctlVars, rateVars, processedMessages, runtimeConfig, stats, aiVars,
                   loopVars, startTime, messages, messageKey, clockVars, pureVars, sysVars>>

\* a null reply that records the dedup key
GenNullRecordsKey ==
    /\ pc = "hc_gen"
    /\ response' = NoResponse
    /\ pc' = "hc_exit"
    /\ reported' = <<>>
    /\ processedMessages' = processedMessages \cup {messageKey}
    /\ calls' = Last(EndFirst(calls, calls.pair, "final"), "genNull")
    /\ UNCHANGED <<ctlVars, rateVars, runtimeConfig, stats, aiVars,
                   loopVars, startTime, messages, messageKey, clockVars, pureVars, sysVars>>

\* worker.ts:245-247, 273: getResponse returns null
GenNull ==
    /\ pc = "hc_gen"
    /\ response' = NoResponse
    /\ pc' = "hc_exit"
    /\ reported' = <<>>
    /\ calls' = Last(EndFirst(calls, calls.pair, "retry"), "genNull")
    /\ UNCHANGED <<ctlVars, rateVars, processedMessages, runtimeConfig, stats, aiVars,
                   loopVars, startTime, messages, messageKey, clockVars, pureVars, sysVars>>

\* one more response time, none ever dropped
PushResponseTimeKeepsAll(times, t) == Append(times, t)

\* worker.ts:256-260: one more response time, the oldest dropped beyond the cap
PushResponseTime(times, t) ==
    IF Len(Append(times, t)) > MaxResponseTimes THEN Tail(Append(times, t))
    ELSE Append(times, t)

\* a successful send that does not record the key
SendTrueForgetsKey ==
    /\ pc = "hc_send"
    /\ stats' = [stats EXCEPT !.messagesSent = @ + 1,
                              !.conversationsHandled = @ + 1,
                              !.responseTimes = PushResponseTime(@, now - startTime)]
    /\ repliesThisHour' = repliesThisHour + 1
    /\ reported' = <<"message_sent">>
    /\ pc' = "hc_exit"
    /\ calls' = Sent(Last(EndFirst(calls, calls.pair, "final"), "sendTrue"),
                    now, lastHourReset)
    /\ UNCHANGED <<ctlVars, lastHourReset, processedMessages, runtimeConfig, aiVars,
                   loopVars, convVars, clockVars, pureVars, sysVars>>

\* a successful send that does not count against the hourly cap
SendTrueNoRateCount ==
    /\ pc = "hc_send"
    /\ processedMessages' = processedMessages \cup {messageKey}
    /\ stats' = [stats EXCEPT !.messagesSent = @ + 1,
                              !.conversationsHandled = @ + 1,
                              !.responseTimes = PushResponseTime(@, now - startTime)]
    /\ reported' = <<"message_sent">>
    /\ pc' = "hc_exit"
    /\ calls' = Sent(Last(EndFirst(calls, calls.pair, "final"), "sendTrue"),
                    now, lastHourReset)
    /\ UNCHANGED <<ctlVars, rateVars, runtimeConfig, aiVars, loopVars, convVars,
                   clockVars, pureVars, sysVars>>

\* worker.ts:248-267, 273: sendMessage returns true
SendTrue ==
    /\ pc = "hc_send"
    /\ processedMessages' = processedMessages \cup {messageKey}
    /\ stats' = [stats EXCEPT !.messagesSent = @ + 1,
                              !.conversationsHandled = @ + 1,
                              !.responseTimes = PushResponseTime(@, now - startTime)]
    /\ repliesThisHour' = repliesThisHour + 1
    /\ reported' = <<"message_sent">>
    /\ pc' = "hc_exit"
    /\ calls' = Sent(Last(EndFirst(calls, calls.pair, "final"), "sendTrue"),
                    now, lastHourReset)
    /\ UNCHANGED <<ctlVars, lastHourReset, runtimeConfig, aiVars, loopVars, convVars,
                   clockVars, pureVars, sysVars>>

\* worker.ts:248-249, 273: sendMessage returns false
SendFalse ==
    /\ pc = "hc_send"
    /\ pc' = "hc_exit"
    /\ reported' = <<>>
    /\ calls' = Last(EndFirst(calls, calls.pair, "retry"), "sendFalse")
    /\ UNCHANGED <<ctlVars, rateVars, processedMessages, runtimeConfig, stats, aiVars,
                   loopVars, convVars, clockVars, pureVars, sysVars>>

\* worker.ts:248: sendMessage throws (a mouse or keyboard call fails)
SendThrows ==
    /\ pc = "hc_send"
    /\ PollCatch(EndFirst(calls, calls.pair, "retry"))
    /\ UNCHANGED <<ctlVars, rateVars, processedMessages, runtimeConfig, aiVars, pollCount,
                   allConversations, unread, clockVars,
                   pureVars, sysVars>>

\* worker.ts:214, 222, 228, 236, 274: exitConversation returns
Exit ==
    /\ pc = "hc_exit"
    /\ Return(Last(calls, "returned"))
    /\ UNCHANGED <<ctlVars, rateVars, processedMessages, runtimeConfig, aiVars, pollCount,
                   allConversations, unread, clockVars,
                   pureVars, sysVars>>

\* exitConversation throws (core/snapchat.ts:347-391, its first click is unguarded)
ExitThrows ==
    /\ pc = "hc_exit"
    /\ PollCatch(calls)
    /\ UNCHANGED <<ctlVars, rateVars, processedMessages, runtimeConfig, aiVars, pollCount,
                   allConversations, unread, clockVars,
                   pureVars, sysVars>>

(***************************************************************************)
(* The worker under control messages, with the clock at rest               *)
(***************************************************************************)

Next ==
    \/ Boot \/ Navigate \/ NavigateFails
    \/ LoopTop \/ SleepDone \/ Scan \/ ScanThrows \/ InterSleepDone
    \/ Scroll \/ ScrollThrows \/ Shutdown
    \/ Open \/ OpenFails \/ GetMessages \/ GetMessagesThrows
    \/ DelayDone \/ GenReturn \/ GenNull
    \/ SendTrue \/ SendFalse \/ SendThrows \/ Exit \/ ExitThrows
    \/ Pause \/ Resume \/ Stop \/ Config

Spec == Init /\ [][Next]_vars

(***************************************************************************)
(* The worker while time passes and the parent sets the hourly cap         *)
(***************************************************************************)

NextClock ==
    \/ Boot \/ Navigate
    \/ LoopTop \/ SleepDone \/ ScanShort
    \/ Open \/ GetMessages \/ DelayDone \/ GenReturn \/ SendTrue \/ Exit
    \/ TickSecond \/ TickHour \/ ConfigRate

SpecClock == Init /\ [][NextClock]_vars

(***************************************************************************)
(* The worker against the wall clock, its hourly cap set before the first  *)
(* iteration of the poll loop and left alone afterwards                    *)
(***************************************************************************)

ConfigRateAtStart == pc = "loopTop" /\ pollCount = 0 /\ ConfigRate

\* a scan of a list that is empty or shows two unread conversations
ScanPair ==
    ScanOf({getConversations(page) :
              page \in {<<>>, <<Row(nAl, lReceived5m), Row(nBo, lReceived5m)>>}})

NextRate ==
    \/ Boot \/ Navigate
    \/ LoopTop \/ SleepDone \/ ScanPair
    \/ InterSleepDone
    \/ Open \/ GetMessages \/ DelayDone \/ GenReturn \/ SendTrue \/ Exit
    \/ TickSecond \/ TickHour \/ ConfigRateAtStart

SpecRate == Init /\ [][NextRate]_vars

(***************************************************************************)
(* The worker while the hour turns and the parent switches the schedule on *)
(***************************************************************************)

NextGate ==
    \/ Boot \/ Navigate
    \/ LoopTop \/ SleepDone \/ ScanShort
    \/ Open \/ GetMessages \/ DelayDone \/ GenReturn \/ SendTrue \/ Exit
    \/ TickHour \/ TickHourReplying \/ ConfigSchedule

SpecGate == Init /\ [][NextGate]_vars

(***************************************************************************)
(* The worker while the parent sets a schedule whose start equals its end  *)
(***************************************************************************)

\* config objects with an empty active window
ShutMessages ==
    { [scheduleEnabled |-> TRUE, scheduleStart |-> 9, scheduleEnd |-> 9],
      [scheduleEnabled |-> TRUE, scheduleStart |-> 0, scheduleEnd |-> 0] }

ConfigShut == ConfigFrom(ShutMessages)

NextShut ==
    \/ Boot \/ Navigate
    \/ LoopTop \/ SleepDone \/ ScanShort
    \/ Open \/ GetMessages \/ DelayDone \/ GenReturn \/ SendTrue \/ Exit
    \/ TickHour \/ ConfigShut

SpecShut == Init /\ [][NextShut]_vars

(***************************************************************************)
(* The worker over chats that always show a message of the counterpart     *)
(***************************************************************************)

GetMessagesReceived == GetMessagesOf({v \in ChatViews : LastReceived(v) # <<>>})

NextSeen ==
    \/ Boot \/ Navigate
    \/ LoopTop \/ SleepDone \/ ScanShort
    \/ Open \/ GetMessagesReceived \/ DelayDone \/ GenReturn \/ SendTrue \/ Exit
    \/ ConfigRate

SpecSeen == Init /\ [][NextSeen]_vars

(***************************************************************************)
(* The worker under pause and resume messages                              *)
(***************************************************************************)

NextPause ==
    \/ Boot \/ Navigate
    \/ LoopTop \/ SleepDone \/ Scan \/ InterSleepDone \/ Scroll
    \/ Open \/ GetMessages \/ DelayDone \/ GenReturn \/ SendTrue \/ Exit
    \/ PauseMsg \/ ResumeMsg

SpecPause == Init /\ [][NextPause]_vars

(***************************************************************************)
(* The worker when it is told to stop, every page operation and every      *)
(* sleep returning.  The event loop runs each continuation that is ready,  *)
(* so the steps of the worker are weakly fair; no message has to arrive.   *)
(***************************************************************************)

NextWorker ==
    \/ Boot \/ Navigate
    \/ LoopTop \/ SleepDone \/ Scan \/ InterSleepDone \/ Scroll \/ Shutdown
    \/ Open \/ GetMessages \/ DelayDone \/ GenReturn \/ SendTrue \/ Exit

NextStop == NextWorker \/ PauseMsg \/ StopMsg \/ ConfigSchedule

SpecStop == Init /\ [][NextStop]_vars /\ WF_vars(NextWorker)

(***************************************************************************)
(* The worker when the dashboard stops it and its forced-kill timer fires  *)
(***************************************************************************)

NextKill == NextWorker \/ StopAsked \/ ForcedKill

SpecKill == Init /\ [][NextKill]_vars

(***************************************************************************)
(* The worker from start to exit under the requests of the dashboard       *)
(***************************************************************************)

NextLife == NextWorker \/ NavigateFails \/ PauseAsked \/ ResumeAsked \/ StopAsked

SpecLife == Init /\ [][NextLife]_vars

(***************************************************************************)
(* The dashboard server (part_012): activeBots, the worker processes it    *)
(* spawns, and its forced-kill timers.  A child is "alive" from spawn,     *)
(* "signalled" once SIGTERM was sent to it (it is shutting down, see       *)
(* Sigterm), and "exited" when its exit event has been handled.            *)
(***************************************************************************)

HasBot(s) == activeBots[s] # NoBot

\* child.kill('SIGTERM'): a process that has exited is not signalled
Killed(ch, p) == IF ch[p].state = "alive" THEN [ch EXCEPT ![p].state = "signalled"] ELSE ch

\* the processes of session s that have not exited
LiveWorkers(s) == {p \in DOMAIN children : children[p].session = s /\ children[p].state # "exited"}

\* part_012:207-288: POST /api/sessions/:id/start
StartReq(s) ==
    /\ s \in sessions
    /\ IF HasBot(s)
       THEN /\ activeBots[s].status = "paused"
            /\ activeBots' = [activeBots EXCEPT ![s].status = "running"]
            /\ UNCHANGED children
       ELSE /\ Len(children) < MaxSpawns
            /\ children' = Append(children, [session |-> s, state |-> "alive"])
            /\ activeBots' = [activeBots EXCEPT
                                 ![s] = [process |-> Len(children) + 1, status |-> "starting"]]
    /\ UNCHANGED <<sessions, timers, login, workerVars>>

\* part_012:290-311: POST /api/sessions/:id/stop; the timer keeps the bot of now
StopReq(s) ==
    /\ HasBot(s)
    /\ activeBots' = [activeBots EXCEPT ![s].status = "stopping"]
    /\ timers' = timers \cup {[session |-> s, process |-> activeBots[s].process]}
    /\ UNCHANGED <<sessions, children, login, workerVars>>

\* part_012:302-308: the timer fires 5 s later; it looks the session up by id
TimerFires ==
    \E t \in timers :
        /\ timers' = timers \ {t}
        /\ IF HasBot(t.session)
           THEN /\ children' = Killed(children, t.process)
                /\ activeBots' = [activeBots EXCEPT ![t.session] = NoBot]
           ELSE UNCHANGED <<children, activeBots>>
        /\ UNCHANGED <<sessions, login, workerVars>>

\* part_012:313-325: POST /api/sessions/:id/pause
PauseReq(s) ==
    /\ HasBot(s) /\ activeBots[s].status = "running"
    /\ activeBots' = [activeBots EXCEPT ![s].status = "paused"]
    /\ UNCHANGED <<sessions, children, timers, login, workerVars>>

\* part_012:327-339: POST /api/sessions/:id/resume
ResumeReq(s) ==
    /\ HasBot(s) /\ activeBots[s].status = "paused"
    /\ activeBots' = [activeBots EXCEPT ![s].status = "running"]
    /\ UNCHANGED <<sessions, children, timers, login, workerVars>>

\* part_012:341-359: DELETE /api/sessions/:id
DeleteReq(s) ==
    /\ HasBot(s) \/ s \in sessions
    /\ IF HasBot(s)
       THEN /\ children' = Killed(children, activeBots[s].process)
            /\ activeBots' = [activeBots EXCEPT ![s] = NoBot]
       ELSE UNCHANGED <<children, activeBots>>
    /\ sessions' = sessions \ {s}
    /\ UNCHANGED <<timers, login, workerVars>>

\* part_012:68-98, 233-243: a worker that has not exited reports a status or an
\* error; the report lands on the bot activeBots holds for the session
WorkerReports(p) ==
    /\ p \in DOMAIN children /\ children[p].state # "exited"
    /\ HasBot(children[p].session)
    /\ \E st \in {"running", "error"} :
         /\ activeBots[children[p].session].status # st
         /\ activeBots' = [activeBots EXCEPT ![children[p].session].status = st]
    /\ UNCHANGED <<sessions, children, timers, login, workerVars>>

\* part_012:280-284: a worker exits (stopped, killed, failed) and its exit
\* event removes the session's entry of activeBots
WorkerExits(p) ==
    /\ p \in DOMAIN children /\ children[p].state # "exited"
    /\ children' = [children EXCEPT ![p].state = "exited"]
    /\ activeBots' = [activeBots EXCEPT ![children[p].session] = NoBot]
    /\ UNCHANGED <<sessions, timers, login, workerVars>>

NextOrch ==
    \/ \E s \in SessionIds :
          StartReq(s) \/ StopReq(s) \/ PauseReq(s) \/ ResumeReq(s) \/ DeleteReq(s)
    \/ TimerFires
    \/ \E p \in 1..MaxSpawns : WorkerReports(p) \/ WorkerExits(p)

SpecOrch == Init /\ [][NextOrch]_vars

(***************************************************************************)
(* The login endpoints of the dashboard server (server.ts:247-337).  Each  *)
(* request is a record of login.reqs: the operation, the name it carries,  *)
(* the await its handler is suspended at ("done" once answered), the       *)
(* browser it acts on, and its HTTP status.  `busy` and `kept` note        *)
(* whether a login was in progress when the request came in and whether    *)
(* its first step left pendingLoginName alone.                             *)
(***************************************************************************)

MaxLoginReqs == 3    \* login requests the server receives

LoginNames == {"ann", "bob"}

Request(op, name, at, b, code, busy, kept) ==
    [op |-> op, name |-> name, at |-> at, b |-> b, code |-> code, busy |-> busy,
     kept |-> kept]

\* a start request was accepted and neither completed nor cancelled
LoginInProgress(l) ==
    \/ l.browser # NoBrowser
    \/ \E i \in 1..Len(l.reqs) : l.reqs[i].op = "start" /\ l.reqs[i].at = "launch"

Receive(l, r) == [l EXCEPT !.reqs = Append(@, r)]
Answer(l, i, code) == [l EXCEPT !.reqs[i].at = "done", !.reqs[i].code = code]
Suspended(i, op, at) ==
    /\ i \in 1..Len(login.reqs)
    /\ login.reqs[i].op = op
    /\ login.reqs[i].at = at

\* server.ts:251-267: POST /api/login/start up to its first await
LoginStartReq(name) ==
    /\ Len(login.reqs) < MaxLoginReqs
    /\ login' =
         IF name = ""
         THEN Receive(login, Request("start", name, "done", NoBrowser, 400,
                                     LoginInProgress(login), TRUE))
         ELSE IF login.browser # NoBrowser
         THEN Receive(login, Request("start", name, "done", NoBrowser, 400,
                                     LoginInProgress(login), TRUE))
         ELSE Receive([login EXCEPT !.name = name],
                      Request("start", name, "launch", NoBrowser, 0,
                              LoginInProgress(login), login.name = name))
    /\ UNCHANGED <<sessions, activeBots, children, timers, workerVars>>

\* server.ts:267-269: launchForLogin resolves, the browser is stored, goto starts
LaunchReturns(i) ==
    /\ Suspended(i, "start", "launch")
    /\ login' = [login EXCEPT !.made = @ + 1,
                              !.open = @ \cup {login.made + 1},
                              !.browser = login.made + 1,
                              !.reqs[i].at = "goto",
                              !.reqs[i].b = login.made + 1]
    /\ UNCHANGED <<sessions, activeBots, children, timers, workerVars>>

\* server.ts:267, 274-277: launchForLogin rejects, before chromium.launch gave a
\* browser or after it (newContext or newPage failed, part_011:59-79)
LaunchThrows(i) ==
    /\ Suspended(i, "start", "launch")
    /\ \E launched \in BOOLEAN :
         login' = IF launched
                  THEN Answer([login EXCEPT !.made = @ + 1,
                                            !.open = @ \cup {login.made + 1}], i, 500)
                  ELSE Answer(login, i, 500)
    /\ UNCHANGED <<sessions, activeBots, children, timers, workerVars>>

\* server.ts:269-273: goto resolves
GotoReturns(i) ==
    /\ Suspended(i, "start", "goto")
    /\ login' = Answer(login, i, 200)
    /\ UNCHANGED <<sessions, activeBots, children, timers, workerVars>>

\* server.ts:269-277: goto rejects
GotoThrows(i) ==
    /\ Suspended(i, "start", "goto")
    /\ login' = Answer(login, i, 500)
    /\ UNCHANGED <<sessions, activeBots, children, timers, workerVars>>

\* server.ts:281-296: POST /api/login/complete up to its first await
LoginCompleteReq ==
    /\ Len(login.reqs) < MaxLoginReqs
    /\ login' =
         IF login.browser = NoBrowser \/ login.name = NoName
         THEN Receive(login, Request("complete", login.name, "done", NoBrowser, 400,
                                     LoginInProgress(login), TRUE))
         ELSE Receive(login, Request("complete", login.name, "state", login.browser, 0,
                                     LoginInProgress(login), TRUE))
    /\ UNCHANGED <<sessions, activeBots, children, timers, workerVars>>

\* server.ts:296-310: storageState resolves, the session file is written under
\* the id made at 289, closeBrowser is called on loginBrowser as it is now (a
\* null makes it reject, 315-318)
StorageStateReturns(i) ==
    /\ Suspended(i, "complete", "state")
    /\ login' =
         IF login.browser = NoBrowser
         THEN Answer([login EXCEPT !.saved = @ \cup {login.reqs[i].name}], i, 500)
         ELSE [login EXCEPT !.saved = @ \cup {login.reqs[i].name},
                            !.reqs[i].at = "close",
                            !.reqs[i].b = login.browser]
    /\ UNCHANGED <<sessions, activeBots, children, timers, workerVars>>

\* server.ts:296, 315-318: storageState rejects
StorageStateThrows(i) ==
    /\ Suspended(i, "complete", "state")
    /\ login' = Answer(login, i, 500)
    /\ UNCHANGED <<sessions, activeBots, children, timers, workerVars>>

\* server.ts:322-324: POST /api/login/cancel up to its await
LoginCancelReq ==
    /\ Len(login.reqs) < MaxLoginReqs
    /\ login' =
         IF login.browser # NoBrowser
         THEN Receive(login, Request("cancel", NoName, "close", login.browser, 0,
                                     LoginInProgress(login), TRUE))
         ELSE Receive(login, Request("cancel", NoName, "done", NoBrowser, 200,
                                     LoginInProgress(login), TRUE))
    /\ UNCHANGED <<sessions, activeBots, children, timers, workerVars>>

\* server.ts:310-314 and 324-328: closeBrowser resolves, both variables are reset
BrowserClosed(i) ==
    /\ Suspended(i, "complete", "close") \/ Suspended(i, "cancel", "close")
    /\ login' = Answer([login EXCEPT !.open = @ \ {login.reqs[i].b},
                                     !.browser = NoBrowser,
                                     !.name = NoName], i, 200)
    /\ UNCHANGED <<sessions, activeBots, children, timers, workerVars>>

NextLogin ==
    \/ \E name \in LoginNames \cup {""} : LoginStartReq(name)
    \/ LoginCompleteReq
    \/ LoginCancelReq
    \/ \E i \in 1..MaxLoginReqs :
          \/ LaunchReturns(i) \/ LaunchThrows(i)
          \/ GotoReturns(i) \/ GotoThrows(i)
          \/ StorageStateReturns(i) \/ StorageStateThrows(i)
          \/ BrowserClosed(i)

SpecLogin == Init /\ [][NextLogin]_vars

(***************************************************************************)
(* Pure functions, applied to inputs drawn at the start                    *)
(***************************************************************************)

PureInit ==
    /\ pc = "pure"
    /\ Constructed
    /\ Idle
    /\ config.deepseekApiKey = ""
    /\ ret = <<>>

Applied(result) ==
    /\ pc = "pure"
    /\ pc' = "done"
    /\ ret' = result
    /\ UNCHANGED <<ctlVars, rateVars, processedMessages, runtimeConfig, stats, aiVars,
                   loopVars, convVars, clockVars, reported, calls, arg, sysVars>>

\* --- the schedule gate ---------------------------------------------------

Hours == 0..23
Weekdays == 0..6

ScheduleInputs ==
    [enabled : BOOLEAN, skipWeekends : BOOLEAN, start : Hours, end : Hours,
     hour : Hours, day : Weekdays]

\* unnamed/part_016:186-203, on the given state.schedule, hour and weekday
stateIsWithinSchedule(schedule, h, d) ==
    IF ~schedule.enabled THEN TRUE
    ELSE IF schedule.skipWeekends /\ (d = 0 \/ d = 6) THEN FALSE
    ELSE IF schedule.startHour <= schedule.endHour
         THEN h >= schedule.startHour /\ h < schedule.endHour
         ELSE h >= schedule.startHour \/ h < schedule.endHour

InitSchedule == PureInit /\ arg \in ScheduleInputs

\* both schedule gates are evaluated at hour arg.hour of weekday arg.day
ApplySchedule ==
    Applied([worker |-> isWithinSchedule(
                            [DefaultRuntimeConfig EXCEPT !.scheduleEnabled = arg.enabled,
                                                         !.scheduleStart = arg.start,
                                                         !.scheduleEnd = arg.end,
                                                         !.skipWeekends = arg.skipWeekends],
                            arg.hour, arg.day),
             state |-> stateIsWithinSchedule(
                            [enabled |-> arg.enabled, startHour |-> arg.start,
                             endHour |-> arg.end, skipWeekends |-> arg.skipWeekends],
                            arg.hour, arg.day)])

NextSchedule == ApplySchedule

SpecSchedule == InitSchedule /\ [][NextSchedule]_vars

\* --- the conversation scanner --------------------------------------------

MaxItems == 2        \* candidate nodes on the scanned page

lBoth == lDelivered \o <<NL>> \o lReceived5m

\* badge and font weight of a list item: plain, bold, bold with a badge
Looks == {<<FALSE, 400>>, <<FALSE, 700>>, <<TRUE, 700>>}

\* list items with every combination of name, status text and looks
ScanItems ==
    { [text |-> name \o <<NL>> \o status, badge |-> l[1], span |-> TRUE, weight |-> l[2]] :
        name \in {nAl, nBo}, status \in {lReceived5m, lDelivered, lBoth, lHey},
        l \in Looks }

ScanInputs == UNION {[1..n -> ScanItems] : n \in 0..MaxItems}

InitScan == PureInit /\ arg \in ScanInputs

ApplyScan == Applied(getConversations(arg))

NextScan == ApplyScan

SpecScan == InitScan /\ [][NextScan]_vars

\* --- the message list of the reply generator -----------------------------

MaxHist == 11        \* entries of the conversation history

MAX_CONTEXT_MESSAGES == 10

\* the first n entries instead of the last n
sliceFirst(a, n) == SubSeq(a, 1, IF Len(a) < n THEN Len(a) ELSE n)

\* Array.prototype.slice(-n)
sliceLast(a, n) == SubSeq(a, (IF Len(a) - n > 0 THEN Len(a) - n ELSE 0) + 1, Len(a))

\* ai/client.ts:94-99: one history entry as a chat message
ChatMessage(m) == [role |-> IF m.isSent THEN "assistant" ELSE "user", content |-> m.text]

\* ai/client.ts:93-104: the messages getResponse hands to the completion call
getResponseMessages(personality, conversationHistory, userMessage) ==
    LET last == sliceLast(conversationHistory, MAX_CONTEXT_MESSAGES)
        history == [i \in 1..Len(last) |-> ChatMessage(last[i])]
    IN <<[role |-> "system", content |-> personality]>>
       \o history
       \o <<[role |-> "user", content |-> userMessage]>>

HistoryEntries == {Msg(tHi, FALSE), Msg(tYo, TRUE)}

ContextInputs ==
    [personality : {"SYSTEM_PROMPT", "custom"},
     history : UNION {[1..n -> HistoryEntries] : n \in 0..MaxHist},
     lastMessage : {tHi}]

InitContext == PureInit /\ arg \in ContextInputs

ApplyContext == Applied(getResponseMessages(arg.personality, arg.history, arg.lastMessage))

NextContext == ApplyContext

SpecContext == InitContext /\ [][NextContext]_vars

(***************************************************************************)
(* core/snapchat.ts:347-391: exitConversation, by the outcome of each of   *)
(* its page operations                                                     *)
(***************************************************************************)

Outcomes == {"ok", "throws"}

\* one outcome for every page operation of exitConversation, in source order
ExitInputs ==
    [click1 : Outcomes, escape1 : Outcomes, escape2 : Outcomes,
     lookup : {"found", "none", "throws"}, backClick : Outcomes,
     clickPanel : Outcomes, query : {"inChat", "left", "throws"},
     escape3 : Outcomes, escape4 : Outcomes, clickList : Outcomes]

\* snapchat.ts:360-369: the try block around the back button; nothing leaves it
BackButton(o) ==
    IF o.lookup = "throws" \/ (o.lookup = "found" /\ o.backClick = "throws")
    THEN "ok"   \* caught at snapchat.ts:367
    ELSE "ok"

\* snapchat.ts:380-388: the extra key presses and click when the chat input
\* is still there
StillInChat(o) ==
    IF "throws" \in {o.escape3, o.escape4, o.clickList} THEN "throws" ELSE "returns"

\* snapchat.ts:347-391: "returns" when the promise resolves, "throws" when it rejects
exitConversation(o) ==
    IF "throws" \in {o.click1, o.escape1, o.escape2} THEN "throws"
    ELSE IF BackButton(o) = "throws" THEN "throws"
    ELSE IF o.clickPanel = "throws" THEN "throws"
    ELSE IF o.query = "throws" THEN "throws"
    ELSE IF o.query = "inChat" THEN StillInChat(o)
    ELSE "returns"

InitExit == PureInit /\ arg \in ExitInputs

ApplyExit == Applied(exitConversation(arg))

NextExit == ApplyExit

SpecExit == InitExit /\ [][NextExit]_vars

(***************************************************************************)
(* ai/client.ts:84-127: getResponse, by the presence of the client and the *)
(* outcome of the completion call                                          *)
(***************************************************************************)

MaxContent == 3      \* characters of a completion's content

\* texts a completion carries
Contents == UNION { [1..n -> {" ", NL, "o"}] : n \in 0..MaxContent }

\* what client.chat.completions.create does: it rejects, or resolves to a
\* response without choices, with a choice without message, with a message
\* without content, or with a content
Completions ==
    { [kind |-> k, content |-> <<>>] : k \in {"throws", "noChoices", "noMessage", "noContent"} }
    \cup { [kind |-> "content", content |-> c] : c \in Contents }

GenInputs == [client : BOOLEAN, completion : Completions]

\* the results of getResponse: a rejected promise, null, a text
Thrown == [threw |-> TRUE, null |-> FALSE, text |-> <<>>]
Null == [threw |-> FALSE, null |-> TRUE, text |-> <<>>]
Text(t) == [threw |-> FALSE, null |-> FALSE, text |-> t]

\* client.ts:93-121: the body of the try block
TryBody(r) ==
    IF r.kind = "throws" THEN Thrown
    ELSE LET content == IF r.kind = "content" THEN trim(r.content) ELSE <<>>
         IN IF content = <<>> THEN Null ELSE Text(content)

\* getResponse without its catch
getResponseNoCatch(cl, r) ==
    IF ~cl THEN Null ELSE TryBody(r)

\* client.ts:84-127
getResponse(cl, r) ==
    IF ~cl THEN Null
    ELSE IF TryBody(r).threw THEN Null ELSE TryBody(r)

InitGen == PureInit /\ arg \in GenInputs

ApplyGen == Applied(getResponse(arg.client, arg.completion))

NextGen == ApplyGen

SpecGen == InitGen /\ [][NextGen]_vars

(***************************************************************************)
(* worker.ts:143-182: the config handler, applied to one message           *)
(***************************************************************************)

MaxMsgFields == 2    \* fields one config message carries

\* a well-typed new value for every field of runtimeConfig (worker.ts:36-58)
NewValue ==
    [aiApiKey |-> "k2", aiModel |-> "m2", aiTemperature |-> 5, personality |-> "p2",
     responseDelayMin |-> 100, responseDelayMax |-> 200,
     pollIntervalMin |-> 300, pollIntervalMax |-> 400,
     maxRepliesPerHour |-> 5,
     scheduleEnabled |-> TRUE, scheduleStart |-> 1, scheduleEnd |-> 2,
     skipWeekends |-> TRUE,
     ignoreList |-> <<>>]

\* the config objects that carry up to MaxMsgFields fields
FieldMessages ==
    { [f \in D |-> NewValue[f]] :
        D \in {E \in SUBSET DOMAIN NewValue : Cardinality(E) \in 1..MaxMsgFields} }

InitConfigMsg == PureInit /\ arg \in FieldMessages

ApplyConfigMsg == Applied(ApplyConfig(runtimeConfig, arg))

NextConfigMsg == ApplyConfigMsg

SpecConfigMsg == InitConfigMsg /\ [][NextConfigMsg]_vars

(***************************************************************************)
(* core/snapchat.ts:174-237: openConversation, by what each of its three   *)
(* strategies meets on the page                                            *)
(***************************************************************************)

MaxEls == 2          \* list elements strategy 1 looks at

\* strategy 1 reads the text of each list element: it is another chat's, it
\* includes the name, or innerText() rejects; strategies 2 and 3 look the
\* name up: nothing, an element (coordinates), or the lookup rejects
OpenInputs ==
    [els : UNION {[1..n -> {"other", "match", "throws"}] : n \in 0..MaxEls},
     click1 : Outcomes,
     lookup2 : {"none", "found", "throws"}, click2 : Outcomes,
     lookup3 : {"none", "found", "throws"}, click3 : Outcomes]

\* snapchat.ts:184-192: the for loop of strategy 1 from element i on
RECURSIVE Method1From(_, _)
Method1From(o, i) ==
    IF i > Len(o.els) THEN "nothing"
    ELSE IF o.els[i] = "throws" THEN "throws"
    ELSE IF o.els[i] = "match" THEN (IF o.click1 = "ok" THEN "clicked" ELSE "throws")
    ELSE Method1From(o, i + 1)

\* snapchat.ts:199-206, 213-232: strategies 2 and 3
MethodLookup(lookup, click) ==
    IF lookup = "throws" THEN "throws"
    ELSE IF lookup = "found" THEN (IF click = "ok" THEN "clicked" ELSE "throws")
    ELSE "nothing"

\* the body of the try block of strategy k
Method(o, k) ==
    IF k = 1 THEN Method1From(o, 1)
    ELSE IF k = 2 THEN MethodLookup(o.lookup2, o.click2)
    ELSE MethodLookup(o.lookup3, o.click3)

\* a try block without its catch
AttemptNoCatch(r) == r

\* snapchat.ts:178-196, 199-209, 212-234: try { ... } catch { log }
Attempt(r) == IF r = "throws" THEN "nothing" ELSE r

\* snapchat.ts:174-237 from strategy k on; tried lists the strategies run so far
RECURSIVE openFrom(_, _, _)
openFrom(o, k, tried) ==
    IF k > 3 THEN [value |-> FALSE, threw |-> FALSE, tried |-> tried]
    ELSE LET r == Attempt(Method(o, k))
         IN IF r = "clicked" THEN [value |-> TRUE, threw |-> FALSE, tried |-> Append(tried, k)]
            ELSE IF r = "throws" THEN [value |-> FALSE, threw |-> TRUE, tried |-> Append(tried, k)]
            ELSE openFrom(o, k + 1, Append(tried, k))

openConversation(o) == openFrom(o, 1, <<>>)

InitOpen == PureInit /\ arg \in OpenInputs

ApplyOpen == Applied(openConversation(arg))

NextOpen == ApplyOpen

SpecOpen == InitOpen /\ [][NextOpen]_vars

(***************************************************************************)
(* core/snapchat.ts:297-345: sendMessage, by what the page shows and by    *)
(* the outcome of each page operation                                      *)
(***************************************************************************)

MaxType == 2         \* characters of the text to send

SendTexts == UNION {[1..n -> {"o", "k"}] : n \in 0..MaxType}

\* the input of the main area (none, left of 300 px, right of it), the other
\* editable elements (fit or not: right of 300 px, below 400 px, wider than
\* 100 px), the outcomes of evaluate, click and Enter, and the position of the
\* character whose keyboard.type rejects (0: none)
SendInputs ==
    [text : SendTexts,
     main : {"none", "left", "right"},
     others : UNION {[1..n -> {"fits", "unfit"}] : n \in 0..1},
     evaluate : Outcomes, click : Outcomes, typeFails : 0..MaxType, enter : Outcomes]

\* snapchat.ts:301-323: the coordinates page.evaluate returns, or null
InputFound(o) ==
    \/ o.main = "right"
    \/ \E i \in 1..Len(o.others) : o.others[i] = "fits"

\* the characters typed, last first
KeystrokesReversed(text, n) ==
    [i \in 1..n |-> <<"type", text[n + 1 - i]>>]

\* snapchat.ts:335-338: the first n characters typed, one keyboard.type each
Keystrokes(text, n) ==
    [i \in 1..n |-> <<"type", text[i]>>]

\* snapchat.ts:297-345: the result, and the clicks and keystrokes made
sendMessage(o) ==
    LET typed == IF o.typeFails \in 1..Len(o.text) THEN o.typeFails - 1 ELSE Len(o.text)
        click == << <<"click", "input">> >>
    IN IF o.evaluate = "throws" THEN [value |-> "throws", events |-> <<>>]
       ELSE IF ~InputFound(o) THEN [value |-> "false", events |-> <<>>]
       ELSE IF o.click = "throws" THEN [value |-> "throws", events |-> <<>>]
       ELSE IF typed < Len(o.text)
       THEN [value |-> "throws", events |-> click \o Keystrokes(o.text, typed)]
       ELSE IF o.enter = "throws"
       THEN [value |-> "throws", events |-> click \o Keystrokes(o.text, typed)]
       ELSE [value |-> "true",
             events |-> click \o Keystrokes(o.text, typed) \o << <<"press", "Enter">> >>]

InitSend == PureInit /\ arg \in SendInputs

ApplySend == Applied(sendMessage(arg))

NextSend == ApplySend

SpecSend == InitSend /\ [][NextSend]_vars

(***************************************************************************)
(* core/snapchat.ts: getConversations, over list items that carry each of  *)
(* the status words and each of the looks                                  *)
(***************************************************************************)

MaxCand == 1         \* candidate nodes of the classified list

lSent     == <<"S","e","n","t">>
lOpened   == <<"O","p","e","n","e","d">>
lReceived == <<"R","e","c","e","i","v","e","d">>
lNewSnap  == <<"N","e","w"," ","S","n","a","p">>
lSentReceived == lSent \o <<NL>> \o lReceived5m

\* [badge, span, weight] of a list item: plain, bold, bold without any span or
\* p element, plain with a badge
CandLooks == {<<FALSE, TRUE, 400>>, <<FALSE, TRUE, 700>>, <<FALSE, FALSE, 700>>,
              <<TRUE, TRUE, 400>>}

CandStatuses == {lHey, lDelivered, lSent, lOpened, lSentReceived, lReceived,
                 lNewChat, lNewSnap}

CandItems ==
    { [text |-> name \o <<NL>> \o status, badge |-> l[1], span |-> l[2], weight |-> l[3]] :
        name \in {nAl, nBo}, status \in CandStatuses, l \in CandLooks }

CandInputs == UNION {[1..n -> CandItems] : n \in 0..MaxCand}

InitClassify == PureInit /\ arg \in CandInputs

ApplyClassify == Applied(getConversations(arg))

NextClassify == ApplyClassify

SpecClassify == InitClassify /\ [][NextClassify]_vars

(***************************************************************************)
(* core/snapchat.ts: getMessages                                           *)
(* The page is [main, innerWidth, nodes]: whether a main area exists, the  *)
(* window width, and the candidate nodes in DOM order.  A node is          *)
(* [text, top, parentLeft, className]: its innerText, the top of its       *)
(* bounding box, the left edge of its parent's box, and its class names    *)
(* joined with its parent's.                                               *)
(***************************************************************************)

MaxMsgText == 500
HeaderPx == 100
MaxMessages == 10

\* snapchat.ts:9-24
SYSTEM_MESSAGES ==
    {<<"t","y","p","e"," ","a"," ","m","e","s","s","a","g","e">>,
     <<"s","e","n","d"," ","a"," ","c","h","a","t">>,
     <<"s","e","n","d"," ","a"," ","s","n","a","p">>,
     <<"c","l","i","c","k"," ","t","h","e"," ","c","a","m","e","r","a">>,
     <<"t","a","p"," ","t","o"," ","c","h","a","t">>,
     <<"d","e","l","i","v","e","r","e","d">>,
     <<"o","p","e","n","e","d">>,
     <<"r","e","c","e","i","v","e","d">>,
     <<"s","c","r","e","e","n","s","h","o","t">>,
     <<"r","e","p","l","a","y","e","d">>,
     <<"n","e","w"," ","c","h","a","t">>,
     <<"c","h","a","t"," ","s","e","t","t","i","n","g","s">>,
     <<"v","i","e","w"," ","p","r","o","f","i","l","e">>,
     <<"s","a","y"," ","h","i">>}

sJustNow == <<"j","u","s","t"," ","n","o","w">>
sAm == <<"a","m">>
sPm == <<"p","m">>

\* /^\d+[mhs]$/.test(text)
IsRelativeTime(text) ==
    /\ Len(text) >= 2
    /\ \A k \in 1..(Len(text) - 1) : text[k] \in Digits
    /\ text[Len(text)] \in {"m", "h", "s"}

\* /^\d{1,2}:\d{2}\s*(am|pm)?$/i.test(text)
IsClockTime(text) ==
    \E h \in {1, 2} :
        /\ Len(text) >= h + 3
        /\ \A k \in 1..h : text[k] \in Digits
        /\ text[h + 1] = ":"
        /\ text[h + 2] \in Digits /\ text[h + 3] \in Digits
        /\ \E e \in (h + 3)..Len(text) :
             /\ \A k \in (h + 4)..e : IsSpace(text[k])
             /\ \/ e = Len(text)
                \/ toLowerCase(SubSeq(text, e + 1, Len(text))) \in {sAm, sPm}

\* snapchat.ts:254-271: the node is passed over before the duplicate test
NodeFiltered(el) ==
    LET text == trim(el.text)
        textLower == toLowerCase(text)
    IN \/ text = <<>>
       \/ Len(text) < 1
       \/ Len(text) > MaxMsgText
       \/ \E sys \in SYSTEM_MESSAGES : includes(textLower, sys)
       \/ IsRelativeTime(text)
       \/ textLower = sJustNow
       \/ IsClockTime(text)
       \/ el.top < HeaderPx

sOutgoing == <<"o","u","t","g","o","i","n","g">>
sSelf == <<"s","e","l","f">>
sRight == <<"r","i","g","h","t">>
sOwn == <<"o","w","n">>

\* snapchat.ts:277-288
IsSentNode(el, innerWidth) ==
    LET className == toLowerCase(el.className)
    IN \/ 2 * el.parentLeft > innerWidth
       \/ includes(className, sSent)
       \/ includes(className, sOutgoing)
       \/ includes(className, sSelf)
       \/ includes(className, sRight)
       \/ includes(className, sOwn)

RECURSIVE CollectFrom(_, _, _, _)
\* snapchat.ts:253-291: the loop over the candidate nodes from position i on
CollectFrom(nodes, i, seen, innerWidth) ==
    IF i > Len(nodes) THEN <<>>
    ELSE IF NodeFiltered(nodes[i]) \/ trim(nodes[i].text) \in seen
         THEN CollectFrom(nodes, i + 1, seen, innerWidth)
         ELSE <<[text |-> trim(nodes[i].text),
                 isSent |-> IsSentNode(nodes[i], innerWidth)]>>
              \o CollectFrom(nodes, i + 1, seen \cup {trim(nodes[i].text)}, innerWidth)

\* the first ten collected messages instead of the last ten
getMessagesFirstTen(dom) ==
    IF ~dom.main THEN <<>>
    ELSE sliceFirst(CollectFrom(dom.nodes, 1, {}, dom.innerWidth), MaxMessages)

\* snapchat.ts:239-295
getMessages(dom) ==
    IF ~dom.main THEN <<>>
    ELSE sliceLast(CollectFrom(dom.nodes, 1, {}, dom.innerWidth), MaxMessages)

MaxNodes == 12       \* candidate nodes of the open conversation

InnerWidth == 1000

\* distinct one-letter message texts
Letters == <<"a","b","c","d","e","f","g","h","i","j","k","l","m","n">>

Repeat(c, n) == [k \in 1..n |-> c]

cSentBubble == <<"B","u","b","b","l","e"," ","S","e","n","t">>
cBubble == <<"b","u","b","b","l","e">>

Node(text, top, parentLeft, className) ==
    [text |-> text, top |-> top, parentLeft |-> parentLeft, className |-> className]

\* the k-th plain message of a chat: odd ones on the left, even ones on the right
PlainNode(k) == Node(<<Letters[k]>>, 100 + 40 * k, IF k % 2 = 0 THEN 600 ELSE 320, cBubble)

\* nodes with the longest text that passes and the shortest that does not
LongNodes ==
    {Node(Repeat("x", MaxMsgText + 1), 300, 320, cBubble),
     Node(Repeat("y", MaxMsgText), 300, 320, cBubble)}

\* nodes that the other filters are about: blank text, system strings,
\* timestamps and near-timestamps, header nodes, repeated texts
SpecialNodes ==
    {Node(<<" ", " ">>, 300, 320, cBubble),
     Node(<<"D","e","l","i","v","e","r","e","d">>, 300, 320, cBubble),
     Node(<<"S","a","y"," ","H","i"," ","t","o"," ","A","l">>, 300, 320, cBubble),
     Node(<<"5","m">>, 300, 320, cBubble),
     Node(<<"5","M">>, 300, 320, cBubble),
     Node(<<"J","u","s","t"," ","N","o","w">>, 300, 320, cBubble),
     Node(<<"1","2",":","3","0"," ","P","M">>, 300, 320, cBubble),
     Node(<<"1",":","0","5">>, 300, 320, cBubble),
     Node(<<"1",":","0","5"," ","x">>, 300, 320, cBubble),
     Node(<<"z">>, 99, 320, cBubble),
     Node(<<"z">>, 100, 320, cSentBubble),
     Node(<<"a">>, 300, 320, cBubble),
     Node(<<" ", "a", " ">>, 300, 600, cBubble)}

\* nodes ahead of the chat: none, a header with the first message's text, a
\* header with a text of its own
LeadNodes ==
    {<<>>, <<Node(<<"a">>, 40, 320, cBubble)>>, <<Node(<<"A","l">>, 40, 320, cBubble)>>}

\* n plain messages, with the one at position p replaced by the node s
ChatNodes(n, p, s) == [k \in 1..n |-> IF k = p THEN s ELSE PlainNode(k)]

PlainChats == {ChatNodes(n, 0, PlainNode(1)) : n \in 0..MaxNodes}

\* chats with a special node in second or in last place, short chats with a
\* long node
SpecialChats ==
    UNION {{ChatNodes(n, p, s) : p \in {2, n}, s \in SpecialNodes} : n \in 2..MaxNodes}
    \cup {ChatNodes(2, p, s) : p \in 1..2, s \in LongNodes}

MessageInputs ==
    { [main |-> TRUE, innerWidth |-> InnerWidth, nodes |-> lead \o nodes] :
        lead \in LeadNodes, nodes \in PlainChats \cup SpecialChats }
    \cup { [main |-> FALSE, innerWidth |-> InnerWidth, nodes |-> nodes] :
             nodes \in PlainChats }

InitMessages == PureInit /\ arg \in MessageInputs

ApplyMessages == Applied(getMessages(arg))

NextMessages == ApplyMessages

SpecMessages == InitMessages /\ [][NextMessages]_vars

(***************************************************************************)
(* worker.ts:246-267: successful sends of a worker that has sent before    *)
(* The worker stands at a send with `arg` earlier sends behind it; the     *)
(* steps from one send to the next record no response time and are one     *)
(* step.                                                                   *)
(***************************************************************************)

MaxRecords == 3      \* sends that follow the earlier ones

\* the response times of n earlier sends, each its own value
Samples(n) == [k \in 1..n |-> 1000 + k]

\* the dedup key of the n-th send, each its own
SendKey(n) == [k \in 1..n |-> "k"]

\* the numbers of earlier sends: none, and those at and just below the cap
EarlierSends == {0} \cup {n \in 0..MaxResponseTimes : n >= MaxResponseTimes - 2}

InitTimes ==
    /\ pc = "hc_send"
    /\ arg \in EarlierSends
    /\ ret = <<>>
    /\ isRunning = TRUE
    /\ isPaused = FALSE
    /\ repliesThisHour = 0
    /\ lastHourReset = 0
    /\ processedMessages = {SendKey(n) : n \in 1..arg}
    /\ runtimeConfig = DefaultRuntimeConfig
    /\ stats = [messagesReceived |-> arg + 1, messagesSent |-> arg,
                conversationsHandled |-> arg, responseTimes |-> Samples(arg)]
    /\ client = TRUE
    /\ config = [deepseekApiKey |-> "env", autoReply |-> TRUE]
    /\ currentConfig = [apiKey |-> "env", model |-> "deepseek-chat",
                        temperature |-> 8, personality |-> "SYSTEM_PROMPT"]
    /\ pollCount = 1
    /\ allConversations = <<>>
    /\ unread = <<>>
    /\ idx = 0
    /\ startTime = 0
    /\ messages = <<>>
    /\ messageKey = SendKey(arg + 1)
    /\ response = NoResponse
    /\ now \in 0..2
    /\ hour = 12
    /\ day = 3
    /\ reported = <<>>
    /\ calls = [byPair |-> [p \in Pairs |-> [presented |-> 0, gen |-> 0, send |-> 0,
                                             first |-> "none"]],
                pair |-> NoPair,
                scanIgnore |-> <<>>,
                last |-> "none",
                ctl |-> 0,
                sentAt |-> <<>>]
    /\ proc = [browser |-> "open", saved |-> 1, exit |-> -1, status |-> "running"]
    /\ Idle

ToNextSend ==
    /\ pc = "hc_exit"
    /\ stats.messagesSent < arg + MaxRecords
    /\ \E d \in 1..3 : startTime' = now /\ now' = now + d
    /\ stats' = [stats EXCEPT !.messagesReceived = @ + 1]
    /\ messageKey' = SendKey(stats.messagesSent + 1)
    /\ pc' = "hc_send"
    /\ UNCHANGED <<ctlVars, rateVars, processedMessages, runtimeConfig, aiVars,
                   pollCount, allConversations, unread, idx, messages,
                   response, hour, day, reported, calls, pureVars, sysVars>>

NextTimes == SendTrue \/ ToNextSend

SpecTimes == InitTimes /\ [][NextTimes]_vars

(***************************************************************************)
(* A poll iteration that throws, as the dashboard server hears of it       *)
(***************************************************************************)

\* part_012:94-97: an 'error' report sets the status the server holds
ErrorHeard == proc' = [proc EXCEPT !.status = "error"]

\* worker.ts:296, 331-334: getConversations throws, the catch reports 'error'
\* and the loop goes on; part_012:94-97: the server records the report
ScanThrowsHeard ==
    /\ pc = "scan"
    /\ PollCatch(calls)
    /\ ErrorHeard
    /\ UNCHANGED <<ctlVars, rateVars, processedMessages, runtimeConfig, aiVars, pollCount,
                   allConversations, unread, clockVars, pureVars, orchVars>>

NextErr ==
    \/ Boot \/ Navigate
    \/ LoopTop \/ SleepDone \/ ScanShort \/ ScanThrowsHeard
    \/ Open \/ GetMessages \/ DelayDone \/ GenReturn \/ SendTrue \/ Exit
    \/ PauseAsked \/ ResumeAsked

SpecErr == Init /\ [][NextErr]_vars

(***************************************************************************)
(* DELETE of a session whose worker runs.  The handler of the server has   *)
(* no await: it signals the worker and unlinks the file in one turn.  The  *)
(* worker's shutdown() writes the file after an await (storageState), so   *)
(* its write is a later step.                                              *)
(***************************************************************************)

\* part_012:341-357 with sessions.ts:191-202: kill('SIGTERM'), unlinkSync, 200;
\* worker.ts:367-373, 390-391: the signal starts shutdown(), which reports
\* 'stopped' and awaits saveSession
DeleteReqRunning(s) ==
    /\ s \in sessions
    /\ proc.status = "running"
    /\ pc \notin {"main", "navigate", "shutdown", "exited"}
    /\ sessions' = sessions \ {s}
    /\ pc' = "shutdown"
    /\ isRunning' = FALSE
    /\ reported' = <<"status">>
    /\ proc' = [proc EXCEPT !.status = "stopped"]
    /\ calls' = Last(calls, "killed")
    /\ UNCHANGED <<isPaused, rateVars, processedMessages, runtimeConfig, stats, aiVars,
                   loopVars, convVars, clockVars, pureVars, activeBots, children, timers,
                   login>>

\* worker.ts:375-387 with part_011:81-110: saveSession writes the file of the
\* session (writeFileSync creates it), the browser closes, exit(0)
ShutdownSavesFile(s) ==
    /\ pc = "shutdown"
    /\ pc' = "exited"
    /\ sessions' = sessions \cup {s}
    /\ proc' = [proc EXCEPT !.saved = @ + 1, !.browser = "closed", !.exit = 0]
    /\ reported' = <<>>
    /\ UNCHANGED <<ctlVars, rateVars, processedMessages, runtimeConfig, stats, aiVars,
                   loopVars, convVars, clockVars, calls, pureVars, activeBots, children,
                   timers, login>>

\* worker.ts:375-379: saveSession throws (the browser is gone), nothing is
\* written; the browser closes, exit(0)
ShutdownSaveThrows ==
    /\ pc = "shutdown"
    /\ pc' = "exited"
    /\ proc' = [proc EXCEPT !.browser = "closed", !.exit = 0]
    /\ reported' = <<>>
    /\ UNCHANGED <<ctlVars, rateVars, processedMessages, runtimeConfig, stats, aiVars,
                   loopVars, convVars, clockVars, calls, pureVars, orchVars>>

NextDel ==
    \/ Boot \/ Navigate
    \/ LoopTop \/ SleepDone \/ ScanShort
    \/ Open \/ GetMessages \/ DelayDone \/ GenReturn \/ SendTrue \/ Exit
    \/ \E s \in SessionIds : DeleteReqRunning(s) \/ ShutdownSavesFile(s)
    \/ ShutdownSaveThrows

SpecDel == Init /\ [][NextDel]_vars

(***************************************************************************)
(* The persisted config of the session.  The server sends it when it       *)
(* handles the worker's report of 'running' (part_012:253-264); the worker *)
(* handles the message at an await.  Between the report (worker.ts:362)    *)
(* and the first schedule check (288) main() and pollLoop() run without an *)
(* await, so the first await the message can land in is the one of the     *)
(* first getConversations call.                                            *)
(***************************************************************************)

\* sessions.ts:167-170: the _config stored with the session
PersistedConfig ==
    [scheduleEnabled |-> TRUE, scheduleStart |-> 9, scheduleEnd |-> 17,
     maxRepliesPerHour |-> 1, ignoreList |-> << <<"A", "L">> >>]

\* part_012:257-263 with worker.ts:143-186: the config sent in answer to
\* 'running' is handled by the worker
InitialConfig ==
    /\ calls.ctl = 0
    /\ pc \notin {"main", "navigate"}
    /\ ~(pc = "loopTop" /\ pollCount = 0)
    /\ ConfigFrom({PersistedConfig})

NextCfg ==
    \/ Boot \/ Navigate
    \/ LoopTop \/ SleepDone \/ ScanShort
    \/ Open \/ GetMessages \/ DelayDone \/ GenReturn \/ SendTrue \/ Exit
    \/ InitialConfig

SpecCfg == Init /\ [][NextCfg]_vars

(***************************************************************************)
(* Properties                                                              *)
(***************************************************************************)

C2_DedupKeyIsFinal ==
    [][ /\ processedMessages \subseteq processedMessages'
        /\ ( /\ pc = "hc_getMessages"
             /\ calls'.pair # NoPair
             /\ MessageKey(calls'.pair[1], calls'.pair[2]) \in processedMessages )
           => ( /\ pc' = "hc_exit"
                /\ \A p \in Pairs : /\ calls'.byPair[p].gen = calls.byPair[p].gen
                                    /\ calls'.byPair[p].send = calls.byPair[p].send )
        /\ pc' \in {"hc_delay", "hc_gen", "hc_send"} => messageKey' \notin processedMessages'
      ]_vars

C2_Witness ==
    /\ pc = "hc_exit"
    /\ calls.last = "duplicate"
    /\ MessageKey(calls.pair[1], calls.pair[2]) \in processedMessages
    /\ calls.byPair[calls.pair].presented = 2

\* C3: the step on which sendMessage returns true records the key, adds one to
\* messagesSent, conversationsHandled and repliesThisHour, appends one response
\* time and reports exactly one message_sent, all before exitConversation.
C3_SendTrueBookkeeping ==
    [][ (pc = "hc_send" /\ calls'.last = "sendTrue") =>
          /\ pc' = "hc_exit"
          /\ MessageKey(Conv.name, LastReceived(messages)[1].text) \in processedMessages'
          /\ stats'.messagesSent = stats.messagesSent + 1
          /\ stats'.conversationsHandled = stats.conversationsHandled + 1
          /\ repliesThisHour' = repliesThisHour + 1
          /\ Len(stats.responseTimes) < 100 =>
                stats'.responseTimes = Append(stats.responseTimes, now - startTime)
          /\ reported' = <<"message_sent">>
      ]_vars

C3_Witness ==
    /\ pc = "hc_exit"
    /\ calls.last = "sendTrue"
    /\ reported = <<"message_sent">>
    /\ stats.messagesSent = 1
    /\ messageKey \in processedMessages

\* C4: when openConversation returns false nothing is read, generated or sent
\* for that conversation, processedMessages is unchanged, no error is reported,
\* and the for-loop carries on: it sleeps and then starts the next unread
\* conversation of the same scan (while the worker is running and not paused).
C4_OpenFalseSkips ==
    [][ /\ (pc = "hc_open" /\ pc' # "hc_open" /\ calls'.last = "openFalse") =>
             /\ processedMessages' = processedMessages
             /\ calls'.byPair = calls.byPair
             /\ \A k \in 1..Len(reported') : reported'[k] # "error"
             /\ pc' \in {"interSleep", "pollSleep"}
             /\ unread' = unread
             /\ idx < Len(unread) => (pc' = "interSleep" /\ idx' = idx)
        /\ ( /\ pc = "interSleep" /\ pc' # "interSleep"
             /\ calls.last = "openFalse"
             /\ idx < Len(unread)
             /\ isRunning /\ ~isPaused )
           => (pc' = "hc_open" /\ idx' = idx + 1 /\ unread' = unread)
      ]_vars

C4_Witness ==
    /\ pc = "hc_open"
    /\ idx = 2
    /\ calls.last = "openFalse"
    /\ processedMessages = {}

\* name contains, whatever the case of the letters, an entry of list
ContainsEntry(name, list) ==
    \E e \in 1..Len(list) :
        \E off \in 0..(Len(name) - Len(list[e])) :
            \A k \in 1..Len(list[e]) :
                toLowerChar(name[off + k]) = toLowerChar(list[e][k])

HandlePcs == {"hc_open", "hc_getMessages", "hc_delay", "hc_gen", "hc_send", "hc_exit"}

\* C5: no conversation whose name contains, case-insensitively, an entry of the
\* ignore list in effect at the scan is among those handed to handleConversation.
C5_IgnoredNeverHandled ==
    /\ \A i \in 1..Len(unread) : ~ContainsEntry(unread[i].name, calls.scanIgnore)
    /\ pc \in HandlePcs => ~ContainsEntry(Conv.name, calls.scanIgnore)

C5_Witness ==
    /\ pc = "hc_open"
    /\ \E i \in 1..Len(allConversations) :
         /\ allConversations[i].hasUnread
         /\ allConversations[i].name = nTeam
         /\ ContainsEntry(allConversations[i].name, calls.scanIgnore)

\* the hours at which a schedule from start to end is open
OpenHours(start, end) ==
    IF start <= end THEN {h \in Hours : start <= h /\ h < end}
    ELSE {h \in Hours : h >= start} \cup {h \in Hours : h < end}

ScheduleReference(a) ==
    \/ ~a.enabled
    \/ /\ ~(a.skipWeekends /\ a.day \in {0, 6})
       /\ a.hour \in OpenHours(a.start, a.end)

\* C6: both schedule gates equal the reference for every hour, weekday and
\* config; from 22 to 6 the gate passes at 23 and at 2 and fails at 12.
C6_ScheduleGate ==
    pc = "done" =>
        /\ ret.worker = ScheduleReference(arg)
        /\ ret.state = ScheduleReference(arg)
        /\ (arg.enabled /\ ~arg.skipWeekends /\ arg.start = 22 /\ arg.end = 6) =>
              /\ arg.hour \in {23, 2} => ret.worker
              /\ arg.hour = 12 => ~ret.worker

C6_Witness ==
    /\ pc = "done"
    /\ arg.enabled /\ arg.start = 22 /\ arg.end = 6 /\ arg.hour = 2 /\ arg.day = 3
    /\ ret.worker /\ ret.state

\* 3601 seconds, in milliseconds
Elapsed3601s == 3601 * 1000

\* the rate gate is evaluated on this step with the counter at the cap and
\* 3601 seconds gone since the window started
GateAtCapAfterWindow ==
    /\ pc = "hc_getMessages"
    /\ calls'.last \in {"gatePassed", "gateRefused"}
    /\ repliesThisHour = runtimeConfig.maxRepliesPerHour
    /\ now - lastHourReset >= Elapsed3601s

\* C7, as claimed: for every accepted cap, with the counter at the cap and 3601
\* seconds elapsed, the next canReply passes and the counter reads 0.
C7_AnyCapPassesAfterWindow ==
    [][ GateAtCapAfterWindow => (calls'.last = "gatePassed" /\ repliesThisHour' = 0) ]_vars

\* C7, amended: for every accepted cap of at least 1, with the counter at the
\* cap and 3601 seconds elapsed, the next canReply passes and the counter reads 0.
C7_PositiveCapPassesAfterWindow ==
    [][ (GateAtCapAfterWindow /\ runtimeConfig.maxRepliesPerHour >= 1) =>
          (calls'.last = "gatePassed" /\ repliesThisHour' = 0) ]_vars

C7_Witness ==
    /\ pc = "hc_delay"
    /\ calls.last = "gatePassed"
    /\ runtimeConfig.maxRepliesPerHour = 1
    /\ stats.messagesSent = 1
    /\ repliesThisHour = 0
    /\ lastHourReset = Elapsed3601s

\* the raw text of the item holds 'delivered' and 'received' with a time token
BothMarkers(item) ==
    /\ includes(toLowerCase(item.text), sDelivered)
    /\ ReceivedWithTime(item.text)

\* the scan does not skip item i of the page: its text and name have the
\* lengths the scan asks for and no earlier item has its name
NotSkipped(page, i) ==
    /\ Len(trim(page[i].text)) >= 2 /\ Len(trim(page[i].text)) <= 200
    /\ Len(ItemName(page[i])) >= 2
    /\ \A k \in 1..(i - 1) : ItemName(page[k]) # ItemName(page[i])

\* the scan result holds the item's conversation with hasUnread = false
EmittedRead(result, item) ==
    \E j \in 1..Len(result) : result[j].name = ItemName(item) /\ ~result[j].hasUnread

\* C8, as claimed: every list item with both markers is emitted with
\* hasUnread = false, whatever its badge and font weight.
C8_BothMarkersAlwaysRead ==
    pc = "done" =>
        \A i \in 1..Len(arg) : BothMarkers(arg[i]) => EmittedRead(ret, arg[i])

\* C8, amended: every list item with both markers that the scan does not skip
\* is emitted with hasUnread = false, whatever its badge and font weight.
C8_BothMarkersReadWhenEmitted ==
    pc = "done" =>
        \A i \in 1..Len(arg) :
            (BothMarkers(arg[i]) /\ NotSkipped(arg, i)) =>
                /\ EmittedRead(ret, arg[i])
                /\ \A j \in 1..Len(ret) : ret[j].name = ItemName(arg[i]) => ~ret[j].hasUnread

C8_Witness ==
    /\ pc = "done"
    /\ \E i \in 1..Len(arg) :
         /\ BothMarkers(arg[i]) /\ NotSkipped(arg, i)
         /\ arg[i].badge /\ arg[i].weight >= 600
         /\ EmittedRead(ret, arg[i])

\* C9: the list handed to the completion call is the system entry with the
\* configured personality, the last min(10, |history|) entries in order with
\* isSent as assistant and the rest as user, then the user entry with lastMessage.
C9_ContextWindow ==
    pc = "done" =>
        LET h == arg.history
            m == IF Len(h) < 10 THEN Len(h) ELSE 10
        IN /\ Len(ret) = m + 2
           /\ ret[1] = [role |-> "system", content |-> arg.personality]
           /\ \A k \in 1..m :
                /\ ret[1 + k].content = h[Len(h) - m + k].text
                /\ ret[1 + k].role = (IF h[Len(h) - m + k].isSent THEN "assistant" ELSE "user")
           /\ ret[m + 2] = [role |-> "user", content |-> arg.lastMessage]

C9_Witness ==
    /\ pc = "done"
    /\ Len(arg.history) = 11
    /\ arg.history[1].isSent /\ ~arg.history[2].isSent
    /\ Len(ret) = 12
    /\ ret[2].role = "user"

\* C10: an exception in a poll iteration is caught by the loop and reported as
\* one error event; isRunning keeps its value, the loop sleeps the poll
\* interval and then starts its next iteration.
C10_PollErrorContained ==
    [][ /\ (calls.last # "thrown" /\ calls'.last = "thrown") =>
             /\ reported' = <<"error">>
             /\ isRunning' = isRunning
             /\ pc' = "pollSleep"
        /\ (pc = "pollSleep" /\ pc' # "pollSleep") => pc' = "loopTop"
      ]_vars

C10_Witness ==
    /\ pc = "loopTop"
    /\ calls.last = "thrown"
    /\ isRunning
    /\ pollCount = 1


(***************************************************************************)
(* C11: the worker invokes getResponse or sendMessage only at a time when  *)
(* the schedule predicate holds under the runtime config of that time,     *)
(* whatever hour turns and whatever config message arrives between the     *)
(* schedule check at the top of the iteration and the reply.               *)
(***************************************************************************)
C11_RepliesOnlyInSchedule ==
    [][ (pc' # pc /\ calls'.last \in {"getResponse", "sendMessage"})
            => isWithinSchedule(runtimeConfig, hour, day) ]_vars


(***************************************************************************)
(* C12: while isPaused is set (from the step that handles 'pause' to the   *)
(* step that handles 'resume') no step of the poll loop starts a scan and  *)
(* none starts handleConversation; a conversation in hand when the pause   *)
(* arrives is left only from its exitConversation step; and a loop top     *)
(* reached when the worker runs, is not paused and is within its schedule  *)
(* starts a scan.                                                          *)
(***************************************************************************)
ScanStarts == pc # "scan" /\ pc' = "scan"
HandleStarts == pc # "hc_open" /\ pc' = "hc_open"

C12_PauseHoldsTheLoop ==
    [][ /\ isPaused => (~ScanStarts /\ ~HandleStarts)
        /\ (isPaused /\ pc \in HandlePcs /\ pc' \notin HandlePcs) => pc = "hc_exit"
        /\ (pc = "loopTop" /\ pc' # "loopTop" /\ isRunning /\ ~isPaused
                /\ isWithinSchedule(runtimeConfig, hour, day)) => pc' = "scan" ]_vars

\* a pause arrived during the first of three unread conversations: that one
\* was answered and the loop left the other two alone
C12_Witness ==
    /\ isPaused /\ isRunning /\ pc = "scroll" /\ Len(unread) = 3
    /\ stats.messagesSent = 1 /\ stats.messagesReceived = 1


(***************************************************************************)
(* C13: once the worker has handled 'stop' (running, paused or outside its *)
(* schedule), no step starts a scan or a conversation, the loop top leads  *)
(* to shutdown only, and the worker ends having reported 'stopped', saved  *)
(* the session, closed the browser and exited with code 0.                 *)
(***************************************************************************)
StoppedCleanly ==
    /\ pc = "exited"
    /\ proc = [browser |-> "closed", saved |-> 2, exit |-> 0, status |-> "stopped"]

C14_StopNeverAbortsConversation ==
    [][ (pc \in HandlePcs) => (proc'.browser = "open" /\ pc' # "exited") ]_vars


(***************************************************************************)
(* C15: the statuses the worker reports follow starting, running, then     *)
(* paused and running in turn, then stopping, then stopped: every change   *)
(* of the status reported last is one of these steps (a stop handled       *)
(* before 'running' is allowed to go from starting to stopping), so that   *)
(* no 'running' or 'paused' follows 'stopping'.                            *)
(***************************************************************************)
StatusSteps ==
    { <<"none", "starting">>, <<"starting", "running">>, <<"starting", "stopping">>,
      <<"running", "paused">>, <<"paused", "running">>,
      <<"running", "stopping">>, <<"paused", "stopping">>, <<"stopping", "stopped">> }

C15_StatusSequence ==
    [][ (proc'.status # proc.status) => (<<proc.status, proc'.status>> \in StatusSteps) ]_vars


(***************************************************************************)
(* C16: for every session id at most one worker process is alive at any    *)
(* time, under every interleaving of start, stop and delete requests,      *)
(* firings of the forced-kill timer and worker exit events.                *)
(***************************************************************************)
C16_OneWorkerPerSession ==
    \A s \in SessionIds : Cardinality(LiveWorkers(s)) <= 1


(***************************************************************************)
(* C17: exitConversation returns normally for every outcome of its click,  *)
(* key-press, back-button lookup and DOM-query steps.                      *)
(***************************************************************************)
C17_ExitAlwaysReturns == pc = "done" => ret = "returns"

(***************************************************************************)
(* C18: getResponse never throws.  It returns null when there is no        *)
(* client, when the completion call raises, and when the content is        *)
(* missing, empty or all whitespace; otherwise it returns the content      *)
(* without its leading and trailing whitespace.                            *)
(***************************************************************************)
Blank(s) == \A i \in 1..Len(s) : s[i] \in {" ", NL, "\t"}

\* t is s without the whitespace at its two ends
Stripped(s, t) ==
    /\ t # <<>> /\ ~Blank(<<t[1]>>) /\ ~Blank(<<t[Len(t)]>>)
    /\ \E i \in 1..Len(s) :
         /\ i + Len(t) - 1 <= Len(s)
         /\ t = SubSeq(s, i, i + Len(t) - 1)
         /\ Blank(SubSeq(s, 1, i - 1))
         /\ Blank(SubSeq(s, i + Len(t), Len(s)))

C18_GetResponseNeverThrows ==
    pc = "done" =>
        /\ ~ret.threw
        /\ ret.null <=> \/ ~arg.client
                        \/ arg.completion.kind # "content"
                        \/ Blank(arg.completion.content)
        /\ ~ret.null => Stripped(arg.completion.content, ret.text)

\* the completion call raised, and getResponse returned null
C18_Witness ==
    pc = "done" /\ arg.client /\ arg.completion.kind = "throws" /\ ret = Null


(***************************************************************************)
(* C19, as claimed: when getResponse returns null the dedup key of the     *)
(* message is recorded in processedMessages.                               *)
(***************************************************************************)
C19_NullRecordsKey ==
    (pc = "hc_exit" /\ calls.last = "genNull") => messageKey \in processedMessages

(***************************************************************************)
(* C19, amended: when getResponse returns null the reply is suppressed (no *)
(* sendMessage, no message_sent, no counter moves) and the dedup key is    *)
(* not recorded, neither at that step nor when the conversation returns;   *)
(* the next presentation of the same message is not skipped as a           *)
(* duplicate.                                                              *)
(***************************************************************************)
NullOnly(p) ==
    /\ calls.byPair[p].presented = 1 /\ calls.byPair[p].first = "retry"
    /\ calls.byPair[p].gen = 1 /\ calls.byPair[p].send = 0

C19_NullSuppressesReplyOnly ==
    [][ /\ (pc = "hc_gen" /\ pc' = "hc_exit") =>
              /\ response' = NoResponse
              /\ processedMessages' = processedMessages
              /\ messageKey \notin processedMessages'
              /\ calls'.byPair[calls.pair].send = calls.byPair[calls.pair].send
              /\ stats' = stats /\ repliesThisHour' = repliesThisHour
              /\ reported' = <<>>
        /\ (pc = "hc_exit" /\ pc' # "hc_exit" /\ calls.last = "genNull") =>
              /\ processedMessages' = processedMessages
              /\ stats'.messagesSent = stats.messagesSent
        /\ (pc = "hc_getMessages" /\ pc' # "hc_getMessages" /\ calls'.pair # NoPair) =>
              (NullOnly(calls'.pair) => calls'.last # "duplicate") ]_vars

\* the message whose first reply came back null is generated for a second time
C19_Witness ==
    /\ pc = "hc_gen" /\ calls.pair # NoPair
    /\ calls.byPair[calls.pair].presented = 2 /\ calls.byPair[calls.pair].first = "retry"
    /\ calls.byPair[calls.pair].gen = 2 /\ calls.byPair[calls.pair].send = 0


C21_ConfigSetsCarriedFields ==
    pc = "done" =>
        \A f \in DOMAIN DefaultRuntimeConfig :
            ret[f] = IF f \in DOMAIN arg THEN arg[f] ELSE DefaultRuntimeConfig[f]


(***************************************************************************)
(* C22, as claimed: in every reachable state, if more than one hour has    *)
(* passed since lastHourReset then repliesThisHour is 0.                   *)
(***************************************************************************)
C22_CounterZeroOnceHourPassed ==
    (now - lastHourReset > HourMs) => repliesThisHour = 0

(***************************************************************************)
(* C22, amended: every canReply check made more than one hour after        *)
(* lastHourReset sets repliesThisHour to 0 and lastHourReset to the time   *)
(* of the check; the window start moves and the counter decreases on such  *)
(* a check only, so between two resets the counter never decreases.        *)
(***************************************************************************)
GateChecked ==
    pc = "hc_getMessages" /\ pc' # pc /\ calls'.last \in {"gatePassed", "gateRefused"}

C22_CounterResetAtCheck ==
    [][ /\ (GateChecked /\ now - lastHourReset > HourMs) =>
              (repliesThisHour' = 0 /\ lastHourReset' = now)
        /\ (repliesThisHour' < repliesThisHour \/ lastHourReset' # lastHourReset) =>
              (GateChecked /\ now - lastHourReset > HourMs) ]_vars

\* a reply was counted, more than an hour passed, and the next check has reset
\* the counter
C22_Witness ==
    /\ stats.messagesSent = 1 /\ repliesThisHour = 0
    /\ lastHourReset > HourMs /\ lastHourReset = now


(***************************************************************************)
(* C23: handleConversation reaches its response delay, and from there      *)
(* getResponse and sendMessage, only from a rate-limit check that passed:  *)
(* the counter, taken as 0 when a reset was due, was below the cap at the  *)
(* check.  A check that fails starts no generation and no send: the        *)
(* conversation goes to exitConversation.                                  *)
(***************************************************************************)
CountAtCheck == IF now - lastHourReset > HourMs THEN 0 ELSE repliesThisHour

C23_ReplyOnlyAfterPassedCheck ==
    [][ /\ (pc # "hc_delay" /\ pc' = "hc_delay") =>
              (GateChecked /\ CountAtCheck < runtimeConfig.maxRepliesPerHour)
        /\ (pc # "hc_gen" /\ pc' = "hc_gen") => pc = "hc_delay"
        /\ (pc # "hc_send" /\ pc' = "hc_send") => pc = "hc_gen"
        /\ (GateChecked /\ ~(CountAtCheck < runtimeConfig.maxRepliesPerHour)) =>
              /\ pc' = "hc_exit"
              /\ calls'.byPair[calls'.pair].gen = calls.byPair[calls'.pair].gen
              /\ calls'.byPair[calls'.pair].send = calls.byPair[calls'.pair].send ]_vars

\* one reply was counted against a cap of one, and the check refused the next
C23_Witness ==
    /\ pc = "hc_exit" /\ calls.last = "gateRefused"
    /\ repliesThisHour = 1 /\ runtimeConfig.maxRepliesPerHour = 1


(***************************************************************************)
(* C24: the unread conversations of one scan are handled in scan order and *)
(* one at a time.  The unread list keeps the order of the scan; the first  *)
(* handleConversation starts from the scan with position 1, each further   *)
(* one starts from the sleep that follows the return of the one before     *)
(* (after exitConversation, or after openConversation returned false),     *)
(* with the next position of the same list.                                *)
(***************************************************************************)
\* sub is list without some of its entries, in the order of list
InOrderOf(sub, list) ==
    \E f \in [1..Len(sub) -> 1..Len(list)] :
        /\ \A i \in 1..Len(sub) : sub[i] = list[f[i]]
        /\ \A i, j \in 1..Len(sub) : i < j => f[i] < f[j]

Clicks(o, k) ==
    IF k = 1
    THEN /\ o.click1 = "ok"
         /\ \E i \in 1..Len(o.els) :
               o.els[i] = "match" /\ \A j \in 1..(i - 1) : o.els[j] = "other"
    ELSE IF k = 2 THEN o.lookup2 = "found" /\ o.click2 = "ok"
    ELSE o.lookup3 = "found" /\ o.click3 = "ok"

C25_OpenStrategiesInOrder ==
    pc = "done" =>
        LET n == Len(ret.tried) IN
        /\ ~ret.threw
        /\ n \in 1..3 /\ \A k \in 1..n : ret.tried[k] = k
        /\ \A k \in 1..(n - 1) : ~Clicks(arg, k)
        /\ ret.value <=> Clicks(arg, n)
        /\ ~ret.value => n = 3

\* the first strategy threw, the second found nothing, the third clicked
C25_Witness ==
    /\ pc = "done" /\ ret.value /\ ret.tried = <<1, 2, 3>>
    /\ arg.els = <<"throws">> /\ arg.lookup2 = "none"


(***************************************************************************)
(* C26: sendMessage returns false with no click and no keystroke when it   *)
(* finds no text input; when it finds one and its page operations return,  *)
(* it clicks the input once, types the characters of the text one at a     *)
(* time in their order, presses Enter once after the last, and returns     *)
(* true.  Whatever happens, what it did is a beginning of that sequence.   *)
(***************************************************************************)
\* a text input is on the right of the page
HasCandidate(o) == o.main = "right" \/ "fits" \in {o.others[i] : i \in 1..Len(o.others)}

\* every page operation of the call returns
AllReturn(o) ==
    o.evaluate = "ok" /\ o.click = "ok" /\ o.enter = "ok" /\ o.typeFails \notin 1..Len(o.text)

FullSend(text) ==
    << <<"click", "input">> >> \o [i \in 1..Len(text) |-> <<"type", text[i]>>]
        \o << <<"press", "Enter">> >>

Usable(item) ==
    /\ Len(trim(item.text)) >= 2
    /\ Len(trim(item.text)) <= MaxItemText
    /\ Len(ItemName(item)) >= 2
Emitted(items) ==
    {i \in 1..Len(items) :
        /\ Usable(items[i])
        /\ \A j \in 1..(i - 1) :
             Usable(items[j]) => ItemName(items[j]) # ItemName(items[i])}
Rank(items, i) == Cardinality({j \in Emitted(items) : j <= i})

HasWord(item, w) == includes(toLowerCase(trim(item.text)), w)
Handled(item) ==
    HasWord(item, sDelivered) \/ HasWord(item, sSent) \/ HasWord(item, sOpened)
HandledUnlessReceived(item) ==
    \/ HasWord(item, sDelivered)
    \/ HasWord(item, sSent) /\ ~HasWord(item, sReceived)
    \/ HasWord(item, sOpened)
ExplicitUnread(item) ==
    \/ HasWord(item, sReceived)
    \/ ItemName(item) = sNewChatName \/ HasWord(item, sNewChat)
    \/ HasWord(item, sNewSnap) \/ HasWord(item, sNewMessage)
    \/ item.badge
Bold(item) == item.span /\ item.weight >= BoldWeight

\* C27 as stated: every list item whose text contains "delivered", "sent" or
\* "opened" is emitted read and neither a new chat nor a new snap, whatever else
\* it shows.
C27_AnyHandledWordReads ==
    pc = "done" =>
        \A i \in Emitted(arg) :
            Handled(arg[i]) =>
                LET c == ret[Rank(arg, i)]
                IN ~c.hasUnread /\ ~c.isNewChat /\ ~c.isNewSnap

\* C27: every emitted list item is classified in this order: "delivered",
\* "opened", or "sent" without "received", gives read, not a new chat, not a new
\* snap; else a received, new-chat or new-message/snap word or a badge element
\* gives unread; else the item is unread exactly when its first span or p is
\* bold (weight >= 600).
C27_ClassifiedByPrecedence ==
    pc = "done" =>
        /\ Len(ret) = Cardinality(Emitted(arg))
        /\ \A i \in Emitted(arg) :
             LET c == ret[Rank(arg, i)]
                 item == arg[i]
             IN /\ c.name = ItemName(item)
                /\ IF HandledUnlessReceived(item)
                   THEN ~c.hasUnread /\ ~c.isNewChat /\ ~c.isNewSnap
                   ELSE IF ExplicitUnread(item) THEN c.hasUnread
                   ELSE c.hasUnread <=> Bold(item)

\* an item with a sent confirmation is emitted read although it carries a badge
C27_Witness ==
    /\ pc = "done"
    /\ Len(arg) = 1 /\ Len(ret) = 1
    /\ HandledUnlessReceived(arg[1]) /\ arg[1].badge /\ ~ret[1].hasUnread


\* The tests of the claim on one node of the open conversation.
NodeText(el) == trim(el.text)
Denylisted(el) == \E sys \in SYSTEM_MESSAGES : includes(toLowerCase(NodeText(el)), sys)
TimestampShaped(el) ==
    \/ IsRelativeTime(NodeText(el))
    \/ toLowerCase(NodeText(el)) = sJustNow
    \/ IsClockTime(NodeText(el))
Eligible(el) ==
    /\ Len(NodeText(el)) >= 1 /\ Len(NodeText(el)) <= MaxMsgText
    /\ ~Denylisted(el)
    /\ ~TimestampShaped(el)
    /\ el.top >= HeaderPx

\* the positions that survive when a node must be the first of all candidate
\* nodes with its text
FirstOfAll(nodes) ==
    {i \in 1..Len(nodes) :
        /\ Eligible(nodes[i])
        /\ \A j \in 1..(i - 1) : NodeText(nodes[j]) # NodeText(nodes[i])}
\* the positions that survive when a node must be the first eligible node with
\* its text
FirstEligible(nodes) ==
    {i \in 1..Len(nodes) :
        /\ Eligible(nodes[i])
        /\ \A j \in 1..(i - 1) :
             Eligible(nodes[j]) => NodeText(nodes[j]) # NodeText(nodes[i])}

\* the texts of the positions of S in DOM order
RECURSIVE TextsOf(_, _, _)
TextsOf(nodes, S, i) ==
    IF i > Len(nodes) THEN <<>>
    ELSE (IF i \in S THEN <<NodeText(nodes[i])>> ELSE <<>>) \o TextsOf(nodes, S, i + 1)
LastTen(texts) == sliceLast(texts, MaxMessages)
ReturnedTexts == [k \in 1..Len(ret) |-> ret[k].text]

\* C28 as stated: the returned texts are the last 10 of the nodes with an
\* eligible text and position that are the first node of all with their text.
C28_LastTenFirstOfAll ==
    pc = "done" =>
        ReturnedTexts = (IF arg.main THEN LastTen(TextsOf(arg.nodes, FirstOfAll(arg.nodes), 1))
                         ELSE <<>>)

\* C28: getMessages returns, in DOM order, the last 10 (or fewer) of the nodes
\* whose trimmed text has 1..500 characters, holds no system string, is not
\* timestamp-shaped, whose top is at 100px or lower on the page, and which are
\* the first such node with their text; the returned texts are pairwise
\* distinct; without a main area, or with no such node, the result is empty.
C28_LastTenSurvivors ==
    pc = "done" =>
        /\ ReturnedTexts = (IF arg.main
                            THEN LastTen(TextsOf(arg.nodes, FirstEligible(arg.nodes), 1))
                            ELSE <<>>)
        /\ Len(ret) <= MaxMessages
        /\ \A a, b \in 1..Len(ret) : a # b => ret[a].text # ret[b].text
        /\ (~arg.main \/ FirstEligible(arg.nodes) = {}) => ret = <<>>

\* more than ten nodes survive, one node was filtered, and the ten returned
\* are the last ten
C28_Witness ==
    /\ pc = "done"
    /\ arg.main
    /\ Cardinality(FirstEligible(arg.nodes)) > MaxMessages
    /\ \E i \in 1..Len(arg.nodes) : ~Eligible(arg.nodes[i])
    /\ Len(ret) = MaxMessages
    /\ ret[1].text # TextsOf(arg.nodes, FirstEligible(arg.nodes), 1)[1]


\* C29: the worker never holds more than 100 response times, and a send made
\* while it holds 100 drops the oldest and puts the new one last.
C29_ResponseTimesCapped ==
    /\ [](Len(stats.responseTimes) <= MaxResponseTimes)
    /\ [][ (/\ stats'.messagesSent = stats.messagesSent + 1
            /\ Len(stats.responseTimes) = MaxResponseTimes)
           => stats'.responseTimes = Tail(stats.responseTimes) \o <<now - startTime>> ]_vars

\* a worker with 100 earlier sends has sent twice more: the two oldest samples
\* are gone and the newest is last
C29_Witness ==
    /\ arg = MaxResponseTimes
    /\ stats.messagesSent = MaxResponseTimes + 2
    /\ Len(stats.responseTimes) = MaxResponseTimes
    /\ stats.responseTimes[1] = Samples(arg)[3]
    /\ stats.responseTimes[MaxResponseTimes] = now - startTime


\* C30: no two login browsers are open at once, and a start request that comes
\* in while a login is in progress (an earlier start still launching its
\* browser included) is answered 400 at once, launches nothing and leaves the
\* pending login name as it was.
C30_OneLoginBrowser ==
    /\ Cardinality(login.open) <= 1
    /\ \A i \in 1..Len(login.reqs) :
         (login.reqs[i].op = "start" /\ login.reqs[i].busy) =>
             /\ login.reqs[i].at = "done"
             /\ login.reqs[i].code = 400
             /\ login.reqs[i].b = NoBrowser
             /\ login.reqs[i].kept


\* C31: in every worker state messagesSent equals conversationsHandled and
\* exceeds neither messagesReceived nor the number of keys in
\* processedMessages, and no step lowers one of these four numbers.
C31_CountersConsistent ==
    /\ [](/\ stats.messagesSent = stats.conversationsHandled
          /\ stats.messagesSent <= stats.messagesReceived
          /\ stats.messagesSent <= Cardinality(processedMessages))
    /\ [][ /\ stats'.messagesSent >= stats.messagesSent
           /\ stats'.conversationsHandled >= stats.conversationsHandled
           /\ stats'.messagesReceived >= stats.messagesReceived
           /\ Cardinality(processedMessages') >= Cardinality(processedMessages) ]_vars

\* a reply was sent, and another conversation was taken up without a reply
C31_Witness ==
    /\ stats.messagesSent >= 1
    /\ stats.messagesReceived > stats.messagesSent
    /\ Cardinality(processedMessages) >= stats.messagesSent


\* The cap in force once the poll loop runs, and the replies sent so far.
Cap == runtimeConfig.maxRepliesPerHour
Replies == calls.sentAt
SentWithin(i, j) == Replies[j].t - Replies[i].t <= HourMs

SentStep == pc = "hc_send" /\ pc' = "hc_exit" /\ calls'.last = "sendTrue"
RateSkipStep == pc = "hc_getMessages" /\ pc' = "hc_exit" /\ calls'.last = "gateRefused"
NoAISkipStep ==
    /\ pc = "hc_getMessages" /\ pc' = "hc_exit" /\ calls'.last = "gatePassed"
    /\ ~(config.autoReply /\ isAIReady)

\* C33: processedMessages changes only by a successful send, a rate-limit
\* refusal or a skip for a switched-off or unready AI, each of which adds the
\* key of the last counterpart message and nothing else; every other step
\* leaves the set alone; and no reply is sent for a key that is in the set, so
\* a message skipped that way is not replied to later.
C33_KeyAddedInThreeCases ==
    [][ /\ (SentStep \/ RateSkipStep \/ NoAISkipStep)
           => ( /\ messageKey' \in processedMessages'
                /\ processedMessages' = processedMessages \cup {messageKey'} )
        /\ ~(SentStep \/ RateSkipStep \/ NoAISkipStep)
           => processedMessages' = processedMessages
        /\ SentStep => messageKey \notin processedMessages
        /\ (pc' \in {"hc_delay", "hc_gen", "hc_send"}) => messageKey' \notin processedMessages'
      ]_vars

\* a message was skipped by the rate limit, shown again on a later poll and
\* passed over as a duplicate, with no reply generated or sent for it
C33_Witness ==
    \E p \in Pairs :
        /\ calls.byPair[p].presented = 2
        /\ calls.byPair[p].gen = 0
        /\ calls.byPair[p].send = 0
        /\ calls.last = "duplicate"
        /\ MessageKey(p[1], p[2]) \in processedMessages
        /\ stats.messagesSent = 0
        /\ runtimeConfig.maxRepliesPerHour = 0


\* the schedule is on and its window is empty
ScheduleShut ==
    /\ runtimeConfig.scheduleEnabled
    /\ runtimeConfig.scheduleStart = runtimeConfig.scheduleEnd

\* C34: while the schedule is enabled with scheduleStart equal to scheduleEnd,
\* isWithinSchedule is false at every hour of every day, and the worker starts
\* no scan and makes no call of getResponse or sendMessage.
C34_EmptyWindowStopsWorker ==
    /\ [](ScheduleShut =>
             \A h \in 0..23, d \in 0..6 : ~isWithinSchedule(runtimeConfig, h, d))
    /\ [][ ScheduleShut =>
             /\ ~(pc = "loopTop" /\ pc' = "scan")
             /\ ~(pc' # pc /\ calls'.last \in {"getResponse", "sendMessage"}) ]_vars


\* the (name, text) pairs handleConversation has met so far
PairsMet == {p \in Pairs : calls.byPair[p].presented > 0}

\* C35: when every call of handleConversation finds a message of the
\* counterpart, the received-counter does not exceed the number of distinct
\* (name, last counterpart text) pairs met, once the call in hand has read its
\* messages.
C35_ReceivedCountsDistinct ==
    (pc \notin {"hc_open", "hc_getMessages"}) =>
        stats.messagesReceived <= Cardinality(PairsMet)


\* part_012:317-320: POST pause sends 'pause' unless it answers 400
PauseAccepted == proc.status = "running"

\* the worker is in its poll loop, neither paused nor stopping
Polling ==
    /\ pc \in {"loopTop", "pollSleep", "scan", "interSleep"}
    /\ isRunning
    /\ ~isPaused

\* C36: after a worker has reported the 'error' of a caught poll iteration and
\* keeps polling, the status the server holds is one under which POST pause
\* sends 'pause' and does not answer 400
C36_PauseAcceptedAfterError ==
    [][ (calls'.last = "thrown" /\ Polling') => PauseAccepted' ]_vars

\* as long as no iteration has thrown, a polling worker can be paused
PauseAcceptedWhilePolling ==
    (Polling /\ proc.status # "error") => PauseAccepted


\* C37: once DELETE has answered success for a session whose worker was
\* running, the file of the session does not exist again: the shutdown of the
\* killed worker never re-creates it
C37_DeletedFileStaysDeleted ==
    [][ \A s \in SessionIds : s \notin sessions => s \notin sessions' ]_vars

\* the save of a shutdown that throws leaves a deleted file deleted
DeletedUnlessSaved ==
    [][ (\E s \in SessionIds : s \notin sessions /\ s \in sessions')
            => (pc = "shutdown" /\ proc'.saved = proc.saved + 1) ]_vars


\* worker.ts:143-182: the runtime config carries the persisted config
ConfigApplied == \A f \in DOMAIN PersistedConfig : runtimeConfig[f] = PersistedConfig[f]

\* worker.ts:288, 299-305, 226-238: the step is a schedule check, the filter of
\* a scan, or the decision to reply
Decides == pc \in {"loopTop", "scan", "hc_getMessages"} /\ pc' # pc

\* C38: the worker applies the persisted config of the session before its
\* first schedule check and before its first scan is filtered: no schedule
\* check, ignore-list filter or reply decision is made with the built-in
\* default runtime config when the persisted config differs
C38_PersistedConfigBeforeFirstDecision ==
    [][ Decides => ConfigApplied ]_vars

\* once the persisted config has been handled every decision is made with it
DecidesWithConfigOnceHandled ==
    [][ (Decides /\ calls.ctl > 0) => ConfigApplied ]_vars

\* the first schedule check is always made with the default runtime config
FirstCheckWithDefault ==
    [][ (pc = "loopTop" /\ pollCount = 0) => runtimeConfig = DefaultRuntimeConfig ]_vars

====
